---- MODULE Spec2Model ----
(***************************************************************************)
(* IPC AI Combat Extended: the defender spawn point component with its     *)
(* reinforcement escalation (coordinator election, combat tracking, wave   *)
(* triggers, cleanup) and the frontline lifecycle guard.                   *)
(* Time is the server timestamp in milliseconds.                           *)
(***************************************************************************)
EXTENDS Integers, Sequences, FiniteSets, TLC

(***************************************************************************)
(* Program constants (IPC_DefenderSpawnPointComponent)                     *)
(***************************************************************************)
INACTIVE_GRACE_PERIOD == 600
FRONTLINE_RANGE == 2000
REINFORCEMENT_WAVE1_THRESHOLD == 300
REINFORCEMENT_WAVE2_THRESHOLD == 600
REINFORCEMENT_WAVE3_THRESHOLD == 900
REINFORCEMENT_WAVE4_THRESHOLD == 1200
CHECK_INTERVAL == 30000
REINFORCEMENT_GROUP_COUNT == 1
DEBUG_MODE == FALSE
DEBUG_WAVE_INTERVAL == 60
COMBAT_DETECTION_RANGE == 300
\* the delay of CallLater(InitializeReinforcementCoordinator, 5000, false)
COORDINATOR_DELAY == 5000
\* the literal of "if (timeSinceLastReinforcement < 10.0)", in seconds
COOLDOWN_SECONDS == 10
\* the delay of CallLater(DoSendReinforcementAlert, 100, false, baseName, wave)
ALERT_DELAY == 100
\* the value GetWaveThreshold returns for a wave it does not know
INVALID_WAVE_THRESHOLD == 999999
\* the group count EOnInit gives the standing patrol
NORMAL_GROUP_COUNT == 2
\* the arguments of SetPerceptionFactor, in tenths
SOLO_PERCEPTION == 10
EXPERT_PERCEPTION == 15
CYLON_PERCEPTION == 20

(***************************************************************************)
(* Bounds of the model                                                     *)
(***************************************************************************)
\* number of defender spawn points
NumSpawnPoints == 2
\* number of calls of CheckReinforcements in a run of the tick machine
MaxTicks == 4

\* number of bases (strongpoints)
NumBases == 2
\* length of a run of the whole system, in check intervals
MaxIntervals == 2

SpawnPoints == 1 .. NumSpawnPoints
Bases == 1 .. NumBases

\* null references and unset timestamps
NoBase == 0
NoTime == -1
NoFaction == "none"
OPFOR == "USSR"
BLUFOR == "US"

VARIABLES
    now,        \* world.GetServerTimestamp(), ms
    comp,       \* the IPC_DefenderSpawnPointComponent objects, by entity ID
    entities,   \* the entities the waves created: index = handle
    callqueue,  \* GetGame().GetCallqueue(): the pending CallLater entries
    popups,     \* the notifications SCR_PopUpNotification has shown
    patrols,    \* IPC_AutonomousCaptureSystem: the registered spawn points, in order
    home,       \* the base each spawn point stands at (what PrepareBase resolves)
    baseFaction, \* SCR_CampaignMilitaryBaseComponent.GetFaction() of each base
    players,    \* PlayerManager: the connected players
    trigLog,    \* history: the calls of TriggerReinforcements that set the wave,
                \* with the spawn calls each made and those of them that failed
    ticks       \* history: number of CheckReinforcements calls so far

vars == <<now, comp, entities, callqueue, popups, patrols, home, baseFaction,
          players, trigLog, ticks>>

(***************************************************************************)
(* The component after construction (field initialisers, lines 16-30)      *)
(***************************************************************************)
NewComponent ==
    [ life                          |-> "alive",
      m_Faction                     |-> OPFOR,
      m_nearBase                    |-> NoBase,
      m_tCombatStartTime            |-> NoTime,
      m_bReinforcementActive        |-> FALSE,
      m_iReinforcementWave          |-> 0,
      m_tLastReinforcementTime      |-> NoTime,
      m_bIsReinforcementCoordinator |-> FALSE,
      m_bCoordinatorInitialized     |-> FALSE,
      m_aReinforcementGroups        |-> << >>,
      m_aReinforcementHelicopters   |-> << >>,
      m_tInactiveSince              |-> NoTime,
      \* the base class's group count, set by EOnInit
      m_iNum                        |-> NORMAL_GROUP_COUNT,
      \* the base class's flag behind SetIsNearTarget
      m_bIsNearTarget               |-> FALSE,
      \* history: the spawn points of its base this one saw when it elected
      ballot                        |-> {},
      \* history: when UpdateTarget last decided, and since when every decision
      \* has classified the base friendly and off the frontline
      evalAt                        |-> NoTime,
      \* history: what the last decision of UpdateTarget observed
      evalSaw                       |-> "none",
      rearSince                     |-> NoTime,
      \* history: when UpdateTarget first decided on the base as friendly and
      \* off the frontline, with no decision that saw the frontline since
      graceSince                    |-> NoTime ]

\* WorldTimestamp.DiffMilliseconds
DiffMilliseconds(a, b) == a - b

(***************************************************************************)
(* Entities: a handle is an index of entities; status is                   *)
(*   "live"    the entity exists and (a group) has agents                  *)
(*   "empty"   a group whose agents are all dead (GetAgentsCount() == 0)   *)
(*   "deleted" DeleteRplEntity was called, IsDeleted() is true             *)
(*   "gone"    the entity was removed: the reference reads null            *)
(***************************************************************************)
IsNull(ents, h) == ents[h].status = "gone"
IsDeleted(ents, h) == ents[h].status = "deleted"
GetAgentsCount(ents, h) == IF ents[h].status = "live" THEN 1 ELSE 0

(***************************************************************************)
(* The escalation code works on a frame                                    *)
(*   [c: the component, ents: the entities, cq: the callqueue,             *)
(*    log: the trigger history]                                            *)
(* and each method maps a frame to the frame it leaves behind.             *)
(***************************************************************************)
Range(s) == { s[i] : i \in DOMAIN s }

GetWaveThreshold(waveNumber) ==
    IF DEBUG_MODE
    THEN waveNumber * DEBUG_WAVE_INTERVAL
    ELSE CASE waveNumber = 1 -> REINFORCEMENT_WAVE1_THRESHOLD
           [] waveNumber = 2 -> REINFORCEMENT_WAVE2_THRESHOLD
           [] waveNumber = 3 -> REINFORCEMENT_WAVE3_THRESHOLD
           [] waveNumber = 4 -> REINFORCEMENT_WAVE4_THRESHOLD
           [] OTHER -> INVALID_WAVE_THRESHOLD

\* a despawn that deletes the entities and forgets to Clear() the arrays
DespawnPreviousWaveGroups_NoClear(f) ==
    LET tracked == Range(f.c.m_aReinforcementGroups)
                   \cup Range(f.c.m_aReinforcementHelicopters)
    IN [f EXCEPT
          !.ents = [h \in DOMAIN f.ents |->
                      IF h \in tracked /\ ~IsNull(f.ents, h) /\ ~IsDeleted(f.ents, h)
                      THEN [f.ents[h] EXCEPT !.status = "deleted"]
                      ELSE f.ents[h]]]

\* RplComponent.DeleteRplEntity on every tracked handle that is non-null and
\* not yet deleted, then Clear() of both arrays
DespawnPreviousWaveGroups(f) ==
    LET tracked == Range(f.c.m_aReinforcementGroups)
                   \cup Range(f.c.m_aReinforcementHelicopters)
    IN [f EXCEPT
          !.ents = [h \in DOMAIN f.ents |->
                      IF h \in tracked /\ ~IsNull(f.ents, h) /\ ~IsDeleted(f.ents, h)
                      THEN [f.ents[h] EXCEPT !.status = "deleted"]
                      ELSE f.ents[h]],
          !.c.m_aReinforcementGroups = << >>,
          !.c.m_aReinforcementHelicopters = << >>]

\* GetGame().GetCallqueue().CallLater(DoSendReinforcementAlert, 100, false, ...)
BroadcastReinforcementAlert(f, id, wave, t) ==
    [f EXCEPT !.cq = @ \cup {[fn |-> "DoSendReinforcementAlert", owner |-> id,
                              due |-> t + ALERT_DELAY, repeat |-> FALSE,
                              wave |-> wave]}]

\* the factor SpawnReinforcementGroup gives each agent of the group, by
\* GetPlayerManager().GetPlayerCount()
\* a middle tier with the elevated factor
PerceptionFactor_MiddleElevated(playerCount) ==
    IF playerCount < 5 THEN EXPERT_PERCEPTION
    ELSE IF playerCount < 10 THEN CYLON_PERCEPTION
    ELSE CYLON_PERCEPTION

PerceptionFactor(playerCount) ==
    IF playerCount < 5 THEN EXPERT_PERCEPTION
    ELSE IF playerCount < 10 THEN EXPERT_PERCEPTION
    ELSE CYLON_PERCEPTION

\* the EAISkill SpawnReinforcementGroup gives each agent of the group, by
\* GetPlayerManager().GetPlayerCount()
AISkill(playerCount) ==
    IF playerCount < 5 THEN "EXPERT"
    ELSE IF playerCount < 10 THEN "EXPERT"
    ELSE "CYLON"

\* this code has set no perception factor and no skill on the entity: it has
\* no AI agents, or the loop over its agents has configured none
NoPerception == 0
NoSkill == "NONE"

\* what a call that spawns a group comes to:
\*   "null"       no group: the prefab is missing or not loaded, or the
\*                entity is not spawned
\*   "agentless"  the group is spawned and GetAgents returns no agent
\*   "untuned"    the group has agents and the loop skips every one of them
\*                (no controlled entity, no SCR_AIInfoComponent or no combat
\*                component)
\*   "partly"     the loop configures some agents and skips others
\*   "tuned"      the loop configures every agent
SpawnResults == {"null", "agentless", "untuned", "partly", "tuned"}
\* the spawn calls of a wave, in their order
SpawnCalls == 1 .. 2
\* every spawn call of a wave gives a group with every agent configured
AllTuned == [i \in SpawnCalls |-> "tuned"]

\* SpawnReinforcementGroup followed by the caller's Insert: the call returns
\* null without a faction or a base, and when the prefab is missing or cannot
\* be loaded or the entity cannot be spawned (result = "null"); a group that
\* is spawned is returned and tracked whatever its agents.  skipped: an agent
\* of the group was passed over by the loop.  The player manager is not null
\* here: the call is reached only in a tick whose DetectCombatAtBase found it
SpawnReinforcementGroup(f, id, groupType, wave, t, result) ==
    IF f.c.m_Faction = NoFaction \/ f.c.m_nearBase = NoBase \/ result = "null"
    THEN f
    ELSE LET configured == result \in {"tuned", "partly"}
         IN [f EXCEPT
               !.ents = Append(@, [kind |-> groupType,
                                   status |-> IF result = "agentless" THEN "empty"
                                              ELSE "live",
                                   owner |-> id, wave |-> wave, at |-> t,
                                   perception |-> IF configured
                                                  THEN PerceptionFactor(Len(players))
                                                  ELSE NoPerception,
                                   skill |-> IF configured THEN AISkill(Len(players))
                                             ELSE NoSkill,
                                   skipped |-> result \in {"partly", "untuned"}]),
               !.c.m_aReinforcementGroups = Append(@, Len(f.ents) + 1)]

\* SpawnArmedHelicopter: the helicopter is tracked by the method itself
SpawnArmedHelicopter(f, id, wave, t, ok) ==
    IF f.c.m_nearBase = NoBase \/ ~ok
    THEN f
    ELSE [f EXCEPT
            !.ents = Append(@, [kind |-> "HELICOPTER", status |-> "live",
                                owner |-> id, wave |-> wave, at |-> t,
                                perception |-> NoPerception, skill |-> NoSkill,
                                skipped |-> FALSE]),
            !.c.m_aReinforcementHelicopters = Append(@, Len(f.ents) + 1)]

\* the loop "for (int i = 0; i < REINFORCEMENT_GROUP_COUNT; i++)" of waves 1, 2;
\* spawns[i + 1] is what call number i + 1 of the wave comes to
RECURSIVE SpawnGroups(_, _, _, _, _, _, _)
SpawnGroups(f, id, groupType, wave, t, spawns, i) ==
    IF i >= REINFORCEMENT_GROUP_COUNT
    THEN f
    ELSE SpawnGroups(SpawnReinforcementGroup(f, id, groupType, wave, t, spawns[i + 1]),
                     id, groupType, wave, t, spawns, i + 1)

\* the test "successfulSpawns > 0" taken as "a spawn was requested"
Spawned_Requested(before, after) == 1

\* number of entities a frame created on top of another: successfulSpawns
Spawned(before, after) == Len(after.ents) - Len(before.ents)

\* number of spawn calls a wave makes: the helicopter of wave 4, the squad and
\* the fireteam of wave 3, the loop of waves 1 and 2
Requested(wave) ==
    IF wave = 4 THEN 1 ELSE IF wave = 3 THEN 2 ELSE REINFORCEMENT_GROUP_COUNT

\* the previous wave despawned before every new one, whatever the mode
DespawnIfDebug_Always(f) == DespawnPreviousWaveGroups(f)

\* "if (DEBUG_MODE) { DespawnPreviousWaveGroups(); }"
DespawnIfDebug(f) == IF DEBUG_MODE THEN DespawnPreviousWaveGroups(f) ELSE f

\* a trigger that consumes the wave only when a group was spawned
TriggerReinforcements_ConsumeOnSuccess(f, id, wave, worldOk, t, spawns) ==
    IF ~worldOk
    THEN f
    ELSE
      LET f1 == DespawnIfDebug(f)
          f2 == [f1 EXCEPT
                   !.log = Append(@, [sp |-> id, base |-> f.c.m_nearBase, wave |-> wave,
                                      at |-> t, start |-> f.c.m_tCombatStartTime,
                                      requested |-> Requested(wave),
                                      failed |-> {i \in 1 .. Requested(wave) : spawns[i] = "null"}])]
          f3 == CASE wave = 4 -> SpawnArmedHelicopter(f2, id, wave, t, spawns[1] # "null")
                  [] wave = 3 ->
                       SpawnReinforcementGroup(
                           SpawnReinforcementGroup(f2, id, "SQUAD_RIFLE", wave, t, spawns[1]),
                           id, "FIRETEAM", wave, t, spawns[2])
                  [] OTHER ->
                       SpawnGroups(f2, id, IF wave = 1 THEN "FIRETEAM" ELSE "SQUAD_RIFLE",
                                   wave, t, spawns, 0)
      IN IF Spawned(f2, f3) > 0
         THEN BroadcastReinforcementAlert(
                  [f3 EXCEPT !.c.m_tLastReinforcementTime = t,
                             !.c.m_iReinforcementWave = wave], id, wave, t)
         ELSE f3

TriggerReinforcements(f, id, wave, worldOk, t, spawns) ==
    IF ~worldOk
    THEN f
    ELSE
      LET f1 == DespawnIfDebug(f)
          f2 == [f1 EXCEPT
                   !.c.m_tLastReinforcementTime = t,
                   !.c.m_iReinforcementWave = wave,
                   !.log = Append(@, [sp |-> id, base |-> f.c.m_nearBase, wave |-> wave,
                                      at |-> t, start |-> f.c.m_tCombatStartTime,
                                      requested |-> Requested(wave),
                                      failed |-> {i \in 1 .. Requested(wave) : spawns[i] = "null"}])]
          f3 == CASE wave = 4 -> SpawnArmedHelicopter(f2, id, wave, t, spawns[1] # "null")
                  [] wave = 3 ->
                       SpawnReinforcementGroup(
                           SpawnReinforcementGroup(f2, id, "SQUAD_RIFLE", wave, t, spawns[1]),
                           id, "FIRETEAM", wave, t, spawns[2])
                  [] OTHER ->
                       SpawnGroups(f2, id, IF wave = 1 THEN "FIRETEAM" ELSE "SQUAD_RIFLE",
                                   wave, t, spawns, 0)
      IN IF Spawned(f2, f3) > 0
         THEN BroadcastReinforcementAlert(f3, id, wave, t)
         ELSE f3

\* a reset that forgets the wave number
ResetReinforcementState_KeepWave(f) ==
    [f EXCEPT !.c.m_bReinforcementActive = FALSE]

ResetReinforcementState(f) ==
    LET f1 == [f EXCEPT !.c.m_bReinforcementActive = FALSE,
                        !.c.m_iReinforcementWave = 0]
    IN DespawnIfDebug(f1)

\* the wave check without "m_iReinforcementWave < w"
WaveReached_Again(c, w, combatDurationMs) ==
    combatDurationMs >= GetWaveThreshold(w) * 1000

\* "m_iReinforcementWave < w && combatDuration >= GetWaveThreshold(w)" with a
\* strict comparison of the duration
WaveReached_Strict(c, w, combatDurationMs) ==
    /\ c.m_iReinforcementWave < w
    /\ combatDurationMs > GetWaveThreshold(w) * 1000

\* "m_iReinforcementWave < w && combatDuration >= GetWaveThreshold(w)", where
\* combatDuration is DiffMilliseconds / 1000.0
WaveReached(c, w, combatDurationMs) ==
    /\ c.m_iReinforcementWave < w
    /\ combatDurationMs >= GetWaveThreshold(w) * 1000

\* the chain with the check of wave 4 in front
WaveToTrigger_WithFourth(c, combatDurationMs) ==
    IF WaveReached(c, 4, combatDurationMs) THEN 4
    ELSE IF WaveReached(c, 3, combatDurationMs) THEN 3
    ELSE IF WaveReached(c, 2, combatDurationMs) THEN 2
    ELSE IF WaveReached(c, 1, combatDurationMs) THEN 1
    ELSE 0

\* the wave checks in ascending order: wave 1 first
WaveToTrigger_LowestFirst(c, combatDurationMs) ==
    IF WaveReached(c, 1, combatDurationMs) THEN 1
    ELSE IF WaveReached(c, 2, combatDurationMs) THEN 2
    ELSE IF WaveReached(c, 3, combatDurationMs) THEN 3
    ELSE 0

\* the if / else-if chain of the wave checks (wave 4 is commented out): the
\* wave to trigger, 0 for none
WaveToTrigger(c, combatDurationMs) ==
    IF WaveReached(c, 3, combatDurationMs) THEN 3
    ELSE IF WaveReached(c, 2, combatDurationMs) THEN 2
    ELSE IF WaveReached(c, 1, combatDurationMs) THEN 1
    ELSE 0

\* "if (m_tLastReinforcementTime) { if (timeSinceLastReinforcement < 10.0) return; }"
InCooldown(c, currentTime) ==
    /\ c.m_tLastReinforcementTime # NoTime
    /\ DiffMilliseconds(currentTime, c.m_tLastReinforcementTime) < COOLDOWN_SECONDS * 1000

\* a pause instead of a reset: re-engagement resumes the earlier timeline
StartTracking_Resume(f, combatActive, currentTime) ==
    IF combatActive /\ ~f.c.m_bReinforcementActive
    THEN [f EXCEPT !.c.m_tCombatStartTime =
                       IF @ = NoTime THEN currentTime ELSE @,
                   !.c.m_bReinforcementActive = TRUE]
    ELSE f

\* the Idle-to-Engaged branch without the assignment of m_tCombatStartTime
StartTracking_NoStart(f, combatActive, currentTime) ==
    IF combatActive /\ ~f.c.m_bReinforcementActive
    THEN [f EXCEPT !.c.m_bReinforcementActive = TRUE]
    ELSE f

\* "if (combatActive && !m_bReinforcementActive)": start tracking combat
StartTracking(f, combatActive, currentTime) ==
    IF combatActive /\ ~f.c.m_bReinforcementActive
    THEN [f EXCEPT !.c.m_tCombatStartTime = currentTime,
                   !.c.m_bReinforcementActive = TRUE]
    ELSE f

\* the wave checks as independent ifs, lowest first: every wave that is due
\* fires in the same call
UpdateReinforcementState_AllDue(f, id, combatActive, worldOk, currentTime, spawns) ==
    IF ~worldOk
    THEN f
    ELSE
      LET f1 == StartTracking(f, combatActive, currentTime)
          ms == DiffMilliseconds(currentTime, f1.c.m_tCombatStartTime)
          g1 == IF WaveReached(f1.c, 1, ms)
                THEN TriggerReinforcements(f1, id, 1, worldOk, currentTime, spawns) ELSE f1
          g2 == IF WaveReached(g1.c, 2, ms)
                THEN TriggerReinforcements(g1, id, 2, worldOk, currentTime, spawns) ELSE g1
          g3 == IF WaveReached(g2.c, 3, ms)
                THEN TriggerReinforcements(g2, id, 3, worldOk, currentTime, spawns) ELSE g2
      IN IF ~combatActive /\ f1.c.m_bReinforcementActive
         THEN ResetReinforcementState(f1)
         ELSE IF ~f1.c.m_bReinforcementActive
         THEN f1
         ELSE IF InCooldown(f1.c, currentTime)
         THEN f1
         ELSE g3

\* the thresholds evaluated before the test for the end of combat: a wave
\* that is due fires on the tick that resets
UpdateReinforcementState_WaveBeforeReset(f, id, combatActive, worldOk, currentTime, spawns) ==
    IF ~worldOk
    THEN f
    ELSE
      LET f1 == StartTracking(f, combatActive, currentTime)
          combatDurationMs == DiffMilliseconds(currentTime, f1.c.m_tCombatStartTime)
          wave == WaveToTrigger(f1.c, combatDurationMs)
          f2 == IF f1.c.m_bReinforcementActive /\ ~InCooldown(f1.c, currentTime) /\ wave # 0
                THEN TriggerReinforcements(f1, id, wave, worldOk, currentTime, spawns)
                ELSE f1
      IN IF ~combatActive /\ f2.c.m_bReinforcementActive
         THEN ResetReinforcementState(f2)
         ELSE f2

UpdateReinforcementState(f, id, combatActive, worldOk, currentTime, spawns) ==
    IF ~worldOk
    THEN f
    ELSE
      LET f1 == StartTracking(f, combatActive, currentTime)
          combatDurationMs == DiffMilliseconds(currentTime, f1.c.m_tCombatStartTime)
          wave == WaveToTrigger(f1.c, combatDurationMs)
      IN IF ~combatActive /\ f1.c.m_bReinforcementActive
         THEN ResetReinforcementState(f1)
         ELSE IF ~f1.c.m_bReinforcementActive
         THEN f1
         ELSE IF InCooldown(f1.c, currentTime)
         THEN f1
         ELSE IF wave # 0
         THEN TriggerReinforcements(f1, id, wave, worldOk, currentTime, spawns)
         ELSE f1

\* removes, from the last index down, the groups whose reference is null or
\* that have no agents left; the helicopters are not looked at
\* a sweep that removes nothing
CleanupDeadReinforcementGroups_Skip(f) == f

\* array.Remove(i) does not keep the order: the last element takes the freed
\* slot and the array shrinks by one
CleanupDeadReinforcementGroups(f) ==
    LET dead(h) == IsNull(f.ents, h) \/ GetAgentsCount(f.ents, h) = 0
        Remove(s, i) == [k \in 1 .. (Len(s) - 1) |-> IF k = i THEN s[Len(s)] ELSE s[k]]
        RECURSIVE Loop(_, _)
        Loop(s, i) == IF i = 0 THEN s
                      ELSE IF dead(s[i]) THEN Loop(Remove(s, i), i - 1)
                      ELSE Loop(s, i - 1)
    IN IF f.c.m_aReinforcementGroups = << >>
       THEN f
       ELSE [f EXCEPT !.c.m_aReinforcementGroups = Loop(@, Len(@))]

\* combatActive is the result of DetectCombatAtBase()
CheckReinforcements(f, id, combatActive, worldOk, t, spawns) ==
    IF ~f.c.m_bIsReinforcementCoordinator
    THEN f
    ELSE IF f.c.m_nearBase = NoBase
    THEN f
    ELSE CleanupDeadReinforcementGroups(
             UpdateReinforcementState(f, id, combatActive, worldOk, t, spawns))

\* one iteration of the player loop of DetectCombatAtBase that returns true:
\* the player controls an entity that is a living character of another
\* faction, closer to the base than the detection range
\* the distance test with <= in place of <
IsAttacker_Inclusive(c, p) ==
    /\ p.entity
    /\ p.controller /\ ~p.dead
    /\ p.character
    /\ p.faction # NoFaction /\ p.faction # c.m_Faction
    /\ p.dist[c.m_nearBase] * p.dist[c.m_nearBase]
          <= COMBAT_DETECTION_RANGE * COMBAT_DETECTION_RANGE

IsAttacker(c, p) ==
    /\ p.entity
    /\ p.controller /\ ~p.dead
    /\ p.character
    /\ p.faction # NoFaction /\ p.faction # c.m_Faction
    /\ p.dist[c.m_nearBase] * p.dist[c.m_nearBase]
          < COMBAT_DETECTION_RANGE * COMBAT_DETECTION_RANGE

\* a detector that takes a base without a faction for a base of its own
DetectCombatAtBase_NullFactionMatches(c, bf, playerManager, plrs) ==
    IF c.m_nearBase = NoBase
    THEN FALSE
    ELSE IF bf[c.m_nearBase] # NoFaction /\ bf[c.m_nearBase] # c.m_Faction
    THEN FALSE
    ELSE IF ~playerManager
    THEN FALSE
    ELSE \E i \in DOMAIN plrs : IsAttacker(c, plrs[i])

DetectCombatAtBase(c, bf, playerManager, plrs) ==
    IF c.m_nearBase = NoBase
    THEN FALSE
    ELSE IF bf[c.m_nearBase] = NoFaction \/ bf[c.m_nearBase] # c.m_Faction
    THEN FALSE
    ELSE IF ~playerManager
    THEN FALSE
    ELSE \E i \in DOMAIN plrs : IsAttacker(c, plrs[i])

\* an override that schedules the election on every call that finds the base
PrepareBase_EveryCall(f, id, resolved, t) ==
    LET f1 == IF resolved # NoBase THEN [f EXCEPT !.c.m_nearBase = resolved] ELSE f
    IN IF f1.c.m_nearBase # NoBase
       THEN [f1 EXCEPT
               !.c.m_bCoordinatorInitialized = TRUE,
               !.cq = @ \cup {[fn |-> "InitializeReinforcementCoordinator", owner |-> id,
                               due |-> t + COORDINATOR_DELAY, repeat |-> FALSE,
                               wave |-> 0]}]
       ELSE f1

\* super.PrepareBase() leaves m_nearBase at resolved when the base is known
\* (resolved = NoBase: not yet); the override then schedules the election once
PrepareBase(f, id, resolved, t) ==
    LET f1 == IF resolved # NoBase THEN [f EXCEPT !.c.m_nearBase = resolved] ELSE f
    IN IF f1.c.m_nearBase # NoBase /\ ~f1.c.m_bCoordinatorInitialized
       THEN [f1 EXCEPT
               !.c.m_bCoordinatorInitialized = TRUE,
               !.cq = @ \cup {[fn |-> "InitializeReinforcementCoordinator", owner |-> id,
                               due |-> t + COORDINATOR_DELAY, repeat |-> FALSE,
                               wave |-> 0]}]
       ELSE f1

\* a loop that stops at the first spawn point of the base it finds
RECURSIVE LowestIdForBase_FirstFound(_, _, _, _)
LowestIdForBase_FirstFound(list, cs, base, lowest) ==
    IF list = << >>
    THEN lowest
    ELSE IF cs[Head(list)].m_nearBase = base
    THEN Head(list)
    ELSE LowestIdForBase_FirstFound(Tail(list), cs, base, lowest)

\* a loop that keeps the last spawn point of the base instead of the lowest
RECURSIVE LowestIdForBase_NoCompare(_, _, _, _)
LowestIdForBase_NoCompare(list, cs, base, lowest) ==
    IF list = << >>
    THEN lowest
    ELSE LowestIdForBase_NoCompare(Tail(list), cs, base,
             IF cs[Head(list)].m_nearBase # base THEN lowest ELSE Head(list))

\* the foreach of InitializeReinforcementCoordinator over GetPatrols: the entity
\* ID of a spawn point is its index in comp
RECURSIVE LowestIdForBase(_, _, _, _)
LowestIdForBase(list, cs, base, lowest) ==
    IF list = << >>
    THEN lowest
    ELSE LET theirId == Head(list)
         IN LowestIdForBase(Tail(list), cs, base,
                IF cs[theirId].m_nearBase # base
                THEN lowest
                ELSE IF theirId < lowest THEN theirId ELSE lowest)

\* autonomousSystem: IPC_AutonomousCaptureSystem.GetInstance() is not null;
\* allSpawnPoints: what GetPatrols returns; cs: the components it refers to
\* an election that schedules the periodic check whatever its result
InitializeReinforcementCoordinator_AlwaysTick(f, id, autonomousSystem, allSpawnPoints, cs, t) ==
    IF f.c.m_nearBase = NoBase \/ ~autonomousSystem \/ allSpawnPoints = << >>
    THEN f
    ELSE LET lowestIdForBase == LowestIdForBase(allSpawnPoints, cs, f.c.m_nearBase, id)
             seen == {id} \cup {x \in Range(allSpawnPoints) : cs[x].m_nearBase = f.c.m_nearBase}
         IN [f EXCEPT
               !.c.ballot = seen,
               !.c.m_bIsReinforcementCoordinator = (id = lowestIdForBase),
               !.cq = @ \cup {[fn |-> "CheckReinforcements", owner |-> id,
                               due |-> t + CHECK_INTERVAL, repeat |-> TRUE,
                               wave |-> 0]}]

\* an election that schedules itself again when it has to give up
InitializeReinforcementCoordinator_Retry(f, id, autonomousSystem, allSpawnPoints, cs, t) ==
    IF f.c.m_nearBase = NoBase \/ ~autonomousSystem \/ allSpawnPoints = << >>
    THEN [f EXCEPT
            !.cq = @ \cup {[fn |-> "InitializeReinforcementCoordinator", owner |-> id,
                            due |-> t + COORDINATOR_DELAY, repeat |-> FALSE,
                            wave |-> 0]}]
    ELSE LET lowestIdForBase == LowestIdForBase(allSpawnPoints, cs, f.c.m_nearBase, id)
             seen == {id} \cup {x \in Range(allSpawnPoints) : cs[x].m_nearBase = f.c.m_nearBase}
         IN IF id = lowestIdForBase
            THEN [f EXCEPT
                    !.c.ballot = seen,
                    !.c.m_bIsReinforcementCoordinator = TRUE,
                    !.cq = @ \cup {[fn |-> "CheckReinforcements", owner |-> id,
                                    due |-> t + CHECK_INTERVAL, repeat |-> TRUE,
                                    wave |-> 0]}]
            ELSE [f EXCEPT !.c.ballot = seen,
                           !.c.m_bIsReinforcementCoordinator = FALSE]

InitializeReinforcementCoordinator(f, id, autonomousSystem, allSpawnPoints, cs, t) ==
    IF f.c.m_nearBase = NoBase
    THEN f
    ELSE IF ~autonomousSystem
    THEN f
    ELSE IF allSpawnPoints = << >>
    THEN f
    ELSE LET myEntityId == id
             lowestIdForBase == LowestIdForBase(allSpawnPoints, cs, f.c.m_nearBase, myEntityId)
             seen == {id} \cup {x \in Range(allSpawnPoints) : cs[x].m_nearBase = f.c.m_nearBase}
         IN IF myEntityId = lowestIdForBase
            THEN [f EXCEPT
                    !.c.ballot = seen,
                    !.c.m_bIsReinforcementCoordinator = TRUE,
                    !.cq = @ \cup {[fn |-> "CheckReinforcements", owner |-> id,
                                    due |-> t + CHECK_INTERVAL, repeat |-> TRUE,
                                    wave |-> 0]}]
            ELSE [f EXCEPT !.c.ballot = seen,
                           !.c.m_bIsReinforcementCoordinator = FALSE]

\* the frame of spawn point id in the current state
(***************************************************************************)
(* The lifecycle guard                                                     *)
(***************************************************************************)
\* "is any player on this base's faction"
IsBaseFriendly(bf, playerManager, plrs, base) ==
    IF bf[base] = NoFaction
    THEN FALSE
    ELSE IF ~playerManager
    THEN FALSE
    ELSE \E i \in DOMAIN plrs :
            plrs[i].entity /\ plrs[i].character /\ plrs[i].faction = bf[base]

\* the campaign objects IsBaseOnFrontline asks for, each present or null
Collaborators ==
    [gameMode : BOOLEAN, baseManager : BOOLEAN, factionManager : BOOLEAN,
     ourFaction : BOOLEAN, enemyFaction : BOOLEAN]

AllPresent ==
    [gameMode |-> TRUE, baseManager |-> TRUE, factionManager |-> TRUE,
     ourFaction |-> TRUE, enemyFaction |-> TRUE]

\* a frontline test that answers "rear area" when it cannot tell
IsBaseOnFrontline_FailClosed(collab, enemyDistances) ==
    /\ collab.gameMode /\ collab.baseManager /\ collab.factionManager
    /\ collab.ourFaction /\ collab.enemyFaction
    /\ \E distance \in enemyDistances : distance < FRONTLINE_RANGE

\* enemyDistances: the distances from the base to the enemy faction's bases
IsBaseOnFrontline(collab, enemyDistances) ==
    IF ~collab.gameMode THEN TRUE
    ELSE IF ~collab.baseManager THEN TRUE
    ELSE IF ~collab.factionManager THEN TRUE
    ELSE IF ~collab.ourFaction THEN TRUE
    ELSE IF ~collab.enemyFaction THEN TRUE
    ELSE \E distance \in enemyDistances : distance < FRONTLINE_RANGE

\* the guard without its rule 1: the grace period applied to every base
ShouldKeepDefendersActive_NoRule1(c, bf, playerManager, plrs, collab, enemyDistances, worldOk, currentTime) ==
    IF c.m_nearBase = NoBase
    THEN [c |-> c, keep |-> FALSE]
    ELSE IF IsBaseOnFrontline(collab, enemyDistances)
    THEN [c |-> [c EXCEPT !.m_tInactiveSince = NoTime], keep |-> TRUE]
    ELSE IF ~worldOk
    THEN [c |-> c, keep |-> TRUE]
    ELSE IF c.m_tInactiveSince = NoTime
    THEN [c |-> [c EXCEPT !.m_tInactiveSince = currentTime], keep |-> TRUE]
    ELSE [c |-> c,
          keep |-> DiffMilliseconds(currentTime, c.m_tInactiveSince) < INACTIVE_GRACE_PERIOD * 1000]

\* a guard that starts the grace period again at every evaluation within it
ShouldKeepDefendersActive_RestartGrace(c, bf, playerManager, plrs, collab, enemyDistances, worldOk, currentTime) ==
    IF c.m_nearBase = NoBase
    THEN [c |-> c, keep |-> FALSE]
    ELSE IF ~IsBaseFriendly(bf, playerManager, plrs, c.m_nearBase)
    THEN [c |-> c, keep |-> TRUE]
    ELSE IF IsBaseOnFrontline(collab, enemyDistances)
    THEN [c |-> [c EXCEPT !.m_tInactiveSince = NoTime], keep |-> TRUE]
    ELSE IF ~worldOk
    THEN [c |-> c, keep |-> TRUE]
    ELSE IF c.m_tInactiveSince = NoTime
    THEN [c |-> [c EXCEPT !.m_tInactiveSince = currentTime], keep |-> TRUE]
    ELSE IF DiffMilliseconds(currentTime, c.m_tInactiveSince) >= INACTIVE_GRACE_PERIOD * 1000
    THEN [c |-> c, keep |-> FALSE]
    ELSE [c |-> [c EXCEPT !.m_tInactiveSince = currentTime], keep |-> TRUE]

\* the component it leaves and the value it returns
ShouldKeepDefendersActive(c, bf, playerManager, plrs, collab, enemyDistances, worldOk, currentTime) ==
    IF c.m_nearBase = NoBase
    THEN [c |-> c, keep |-> FALSE]
    ELSE IF ~IsBaseFriendly(bf, playerManager, plrs, c.m_nearBase)
    THEN [c |-> c, keep |-> TRUE]
    ELSE IF IsBaseOnFrontline(collab, enemyDistances)
    THEN [c |-> [c EXCEPT !.m_tInactiveSince = NoTime], keep |-> TRUE]
    ELSE IF ~worldOk
    THEN [c |-> c, keep |-> TRUE]
    ELSE IF c.m_tInactiveSince = NoTime
    THEN [c |-> [c EXCEPT !.m_tInactiveSince = currentTime], keep |-> TRUE]
    ELSE IF DiffMilliseconds(currentTime, c.m_tInactiveSince) >= INACTIVE_GRACE_PERIOD * 1000
    THEN [c |-> c, keep |-> FALSE]
    ELSE [c |-> c, keep |-> TRUE]

\* baseReady: m_bBaseReady of the base class after PrepareBase()
\* an override that applies the guard on coordinators only
UpdateTarget_CoordinatorOnly(f, id, resolved, baseReady, bf, playerManager, plrs, collab, enemyDistances, worldOk, t) ==
    LET f1 == PrepareBase(f, id, resolved, t)
        r == ShouldKeepDefendersActive(f1.c, bf, playerManager, plrs, collab,
                                       enemyDistances, worldOk, t)
    IN IF ~baseReady
       THEN f1
       ELSE IF f1.c.m_nearBase = NoBase
       THEN [f1 EXCEPT !.c.m_bIsNearTarget = FALSE]
       ELSE IF ~IsBaseFriendly(bf, playerManager, plrs, f1.c.m_nearBase)
       THEN [f1 EXCEPT !.c.m_bIsNearTarget = TRUE]
       ELSE IF ~f1.c.m_bIsReinforcementCoordinator
       THEN [f1 EXCEPT !.c.m_bIsNearTarget = TRUE]
       ELSE [f1 EXCEPT !.c = [r.c EXCEPT !.m_bIsNearTarget = r.keep]]

UpdateTarget(f, id, resolved, baseReady, bf, playerManager, plrs, collab, enemyDistances, worldOk, t) ==
    LET f1 == PrepareBase(f, id, resolved, t)
        r == ShouldKeepDefendersActive(f1.c, bf, playerManager, plrs, collab,
                                       enemyDistances, worldOk, t)
    IN IF ~baseReady
       THEN f1
       ELSE IF f1.c.m_nearBase = NoBase
       THEN [f1 EXCEPT !.c.m_bIsNearTarget = FALSE]
       ELSE IF ~IsBaseFriendly(bf, playerManager, plrs, f1.c.m_nearBase)
       THEN [f1 EXCEPT !.c.m_bIsNearTarget = TRUE]
       ELSE [f1 EXCEPT !.c = [r.c EXCEPT !.m_bIsNearTarget = r.keep]]

Frame(id) == [c |-> comp[id], ents |-> entities, cq |-> callqueue, log |-> trigLog]

\* the state a method leaves behind
Commit(id, f) ==
    /\ comp' = [comp EXCEPT ![id] = f.c]
    /\ entities' = f.ents
    /\ callqueue' = f.cq
    /\ trigLog' = f.log

(***************************************************************************)
(* The tick machine: one elected coordinator whose CheckReinforcements is  *)
(* called with any sequence of detector results at any increasing times.   *)
(***************************************************************************)
\* times between two calls, ms
TickGaps == {5000, 300000, 595000, 625000}
\* each spawn call of a wave fails or gives a group with every agent configured
SpawnFailures == [SpawnCalls -> {"null", "tuned"}]
\* each spawn call of a wave comes to any of its results
SpawnOutcomes == [SpawnCalls -> SpawnResults]

Coordinator(base) ==
    [NewComponent EXCEPT !.m_nearBase = base,
                         !.m_bCoordinatorInitialized = TRUE,
                         !.m_bIsReinforcementCoordinator = TRUE]

InitTicks ==
    /\ now = 0
    /\ comp = [id \in SpawnPoints |-> IF id = 1 THEN Coordinator(1) ELSE NewComponent]
    /\ entities = << >>
    /\ callqueue = {}
    /\ popups = {}
    /\ patrols = <<1>>
    /\ home = [id \in SpawnPoints |-> 1]
    /\ baseFaction = [b \in Bases |-> OPFOR]
    /\ players = << >>
    /\ trigLog = << >>
    /\ ticks = 0

\* one call of CheckReinforcements on spawn point 1, d ms after the last
TickCall(d, combatActive, worldOk, spawns) ==
    /\ ticks < MaxTicks
    /\ \A e \in callqueue : e.due > now + d
    /\ LET f == CheckReinforcements(Frame(1), 1, combatActive, worldOk, now + d, spawns)
       IN /\ comp' = [comp EXCEPT ![1] = f.c]
          /\ entities' = f.ents
          /\ callqueue' = f.cq
          /\ trigLog' = f.log
    /\ now' = now + d
    /\ ticks' = ticks + 1
    /\ UNCHANGED <<popups, patrols, home, baseFaction, players>>

\* the last agent of a group dies
GroupEliminated(h) ==
    /\ entities[h].status = "live"
    /\ entities[h].kind # "HELICOPTER"
    /\ entities' = [entities EXCEPT ![h].status = "empty"]
    /\ UNCHANGED <<now, comp, callqueue, popups, patrols, home, baseFaction, players,
                   trigLog, ticks>>

\* the callqueue runs a pending DoSendReinforcementAlert: PopupMsg(title, 5.0,
\* subtitle) when the popup system exists
DoSendReinforcementAlert(e, popupSystem) ==
    /\ e \in callqueue
    /\ e.fn = "DoSendReinforcementAlert"
    /\ callqueue' = callqueue \ {e}
    /\ popups' = IF popupSystem THEN popups \cup {[owner |-> e.owner, wave |-> e.wave]}
                 ELSE popups
    /\ UNCHANGED <<now, comp, entities, patrols, home, baseFaction, players,
                   trigLog, ticks>>

NextTicks ==
    \/ \E d \in TickGaps, combatActive \in BOOLEAN, spawns \in SpawnFailures :
          TickCall(d, combatActive, TRUE, spawns)
    \/ \E combatActive \in BOOLEAN : TickCall(CHECK_INTERVAL, combatActive, FALSE, AllTuned)
    \/ \E h \in DOMAIN entities : GroupEliminated(h)
    \/ \E e \in callqueue : DoSendReinforcementAlert(e, TRUE)

SpecTicks == InitTicks /\ [][NextTicks]_vars

\* the escalation alone: the ticks and their notifications, with every
\* spawned group staying alive
NextWaves ==
    \/ \E d \in TickGaps, combatActive \in BOOLEAN, spawns \in SpawnFailures :
          TickCall(d, combatActive, TRUE, spawns)
    \/ \E combatActive \in BOOLEAN : TickCall(CHECK_INTERVAL, combatActive, FALSE, AllTuned)
    \/ \E e \in callqueue : DoSendReinforcementAlert(e, TRUE)

SpecWaves == InitTicks /\ [][NextWaves]_vars

\* the escalation with late calls: a call may come up to 1200 s after the
\* last, so that an engagement can reach any of the four configured
\* thresholds before its first wave
LateGaps == {5000, 300000, 625000, 900000, 1200000}

NextLate ==
    \/ \E d \in LateGaps, combatActive \in BOOLEAN, spawns \in SpawnFailures :
          TickCall(d, combatActive, TRUE, spawns)
    \/ \E combatActive \in BOOLEAN : TickCall(CHECK_INTERVAL, combatActive, FALSE, AllTuned)
    \/ \E e \in callqueue : DoSendReinforcementAlert(e, TRUE)

SpecLate == InitTicks /\ [][NextLate]_vars

(***************************************************************************)
(* Properties of the escalation state machine                              *)
(***************************************************************************)
\* the waves whose check UpdateReinforcementState carries out (the check of
\* wave 4 is commented out)
EvaluatedWaves == {1, 2, 3}

Max(S) == CHOOSE x \in S : \A y \in S : y <= x

\* the highest evaluated wave whose threshold is reached after e ms, 0 if none
HighestReached(e) ==
    Max({0} \cup {w \in EvaluatedWaves : GetWaveThreshold(w) * 1000 <= e})

\* log entries i and j belong to the same engagement of the same spawn point
SameEngagement(i, j) ==
    trigLog[i].sp = trigLog[j].sp /\ trigLog[i].start = trigLog[j].start

\* C3: the wave number never decreases from one step to the next while the
\* component stays active, and it is 0 after every step that takes the
\* component from active to inactive.
C3_WaveMonotoneAndReset ==
    [][\A id \in SpawnPoints :
         /\ (comp[id].m_bReinforcementActive /\ comp'[id].m_bReinforcementActive)
               => comp'[id].m_iReinforcementWave >= comp[id].m_iReinforcementWave
         /\ (comp[id].m_bReinforcementActive /\ ~comp'[id].m_bReinforcementActive)
               => comp'[id].m_iReinforcementWave = 0]_vars

\* C3 witness: waves 1 and 2 fired in one engagement, then combat ended and
\* the component is idle with wave 0.
C3_Witness ==
    /\ ~comp[1].m_bReinforcementActive
    /\ comp[1].m_iReinforcementWave = 0
    /\ Len(trigLog) >= 2
    /\ SameEngagement(1, 2)
    /\ trigLog[1].wave < trigLog[2].wave

\* the waves GetWaveThreshold has a threshold for
ConfiguredWaves == {1, 2, 3, 4}

\* the highest configured wave whose threshold is reached after e ms, 0 if none
HighestConfigured(e) ==
    Max({0} \cup {w \in ConfiguredWaves : GetWaveThreshold(w) * 1000 <= e})

\* C5 as claimed: the first wave that fires in an engagement is the highest
\* wave whose threshold is at most the elapsed combat time of that tick, and
\* every later trigger of the same engagement has a higher wave number.
C5_HighestConfiguredFirst ==
    \A i \in DOMAIN trigLog :
       /\ (\A j \in 1 .. (i - 1) : ~SameEngagement(i, j))
             => trigLog[i].wave = HighestConfigured(trigLog[i].at - trigLog[i].start)
       /\ \A j \in 1 .. (i - 1) :
             SameEngagement(i, j) => trigLog[j].wave < trigLog[i].wave

\* C5 amended: the first wave that fires in an engagement is the highest of
\* the waves 1 to 3 whose threshold is at most the elapsed combat time of
\* that tick (wave 3 also when the 1200 s of wave 4 have passed), and every
\* later trigger of the same engagement has a higher wave number.
C5_HighestFirst ==
    \A i \in DOMAIN trigLog :
       /\ (\A j \in 1 .. (i - 1) : ~SameEngagement(i, j))
             => /\ trigLog[i].wave = HighestReached(trigLog[i].at - trigLog[i].start)
                /\ trigLog[i].at - trigLog[i].start >= GetWaveThreshold(4) * 1000
                      => trigLog[i].wave = 3
       /\ \A j \in 1 .. (i - 1) :
             SameEngagement(i, j) => trigLog[j].wave < trigLog[i].wave

\* C5 witness: the first wave of an engagement fired after 1200 s and was
\* wave 3; the tick 625 s later, 1825 s into the engagement, fired nothing.
C5_Witness ==
    /\ Len(trigLog) = 1
    /\ trigLog[1].at - trigLog[1].start = 1200000
    /\ trigLog[1].wave = 3
    /\ comp[1].m_iReinforcementWave = 3
    /\ comp[1].m_bReinforcementActive
    /\ now = trigLog[1].at + 625000

\* the tracked handles of a component
Tracked(c) == Range(c.m_aReinforcementGroups) \cup Range(c.m_aReinforcementHelicopters)

\* the last trigger of spawn point id, as an index of trigLog (0: none)
LastTrigger(id) == Max({0} \cup {i \in DOMAIN trigLog : trigLog[i].sp = id})

\* C7 as claimed: the tracked collection holds only assets of the wave fired
\* last (every earlier asset was despawned and removed by that trigger).
C7_OnlyLastWaveTracked ==
    \A id \in SpawnPoints : \A h \in Tracked(comp[id]) :
       /\ LastTrigger(id) # 0
       /\ entities[h].at = trigLog[LastTrigger(id)].at

\* C7 amended: a trigger in the shipped configuration despawns nothing: the
\* groups that were tracked and alive before the tick are all tracked after
\* it, each once and still alive, and every other tracked group is a group of
\* the new wave. (Their positions may change: the sweep of the same tick fills
\* the slot of a removed group with the last one.)
C7_TriggerKeepsEarlierWaves ==
    [][\A id \in SpawnPoints :
         (LastTrigger(id)' # LastTrigger(id)) =>
            LET alive(h) == entities[h].status = "live"
                old == SelectSeq(comp[id].m_aReinforcementGroups, alive)
                new == comp'[id].m_aReinforcementGroups
            IN /\ Range(old) \subseteq Range(new)
               /\ Cardinality(Range(new)) = Len(new)
               /\ \A h \in Range(old) : entities'[h].status = "live"
               /\ \A h \in Range(new) \ Range(old) : entities'[h].at = now']_vars

\* C7 witness: after a trigger the coordinator tracks live groups of two
\* different waves.
C7_Witness ==
    \E h1, h2 \in Range(comp[1].m_aReinforcementGroups) :
       /\ entities[h1].wave = 1 /\ entities[h2].wave = 2
       /\ entities[h1].status = "live" /\ entities[h2].status = "live"
       /\ trigLog[LastTrigger(1)].wave = 2

\* C8 as claimed: m_tCombatStartTime is set if and only if the component is
\* active.
C8_StartSetIffActive ==
    \A id \in SpawnPoints :
       (comp[id].m_tCombatStartTime # NoTime) <=> comp[id].m_bReinforcementActive

\* C8 amended: whenever the component is active m_tCombatStartTime is set (to
\* a time that is not in the future); the reset does not clear it.
C8_StartSetWhileActive ==
    \A id \in SpawnPoints :
       comp[id].m_bReinforcementActive =>
          /\ comp[id].m_tCombatStartTime # NoTime
          /\ comp[id].m_tCombatStartTime <= now

\* C8 witness: a second engagement is running, its start time later than that
\* of an engagement in which a wave fired.
C8_Witness ==
    /\ comp[1].m_bReinforcementActive
    /\ comp[1].m_tCombatStartTime # NoTime
    /\ \E i \in DOMAIN trigLog : trigLog[i].start < comp[1].m_tCombatStartTime

(***************************************************************************)
(* The whole system: spawn points are created, registered, resolve their   *)
(* base, elect, tick on the callqueue and are destroyed.                   *)
(***************************************************************************)
Min(S) == CHOOSE x \in S : \A y \in S : x <= y

FarAway == 5000
Nearby == 100

\* a living player character of the other side, far from every base
\* since (history): when the player laid siege to base 1
Player == [entity |-> TRUE, controller |-> TRUE, dead |-> FALSE, character |-> TRUE,
           faction |-> BLUFOR, dist |-> [b \in Bases |-> FarAway],
           since |-> NoTime]

Unborn == [NewComponent EXCEPT !.life = "unborn"]
\* a destroyed component has no fields left to read
Destroyed == [NewComponent EXCEPT !.life = "destroyed"]

\* history: the base a destroyed spawn point stood at and whether it was
\* marked coordinator
Fallen(c) ==
    [Destroyed EXCEPT !.m_nearBase = c.m_nearBase,
                      !.m_bIsReinforcementCoordinator = c.m_bIsReinforcementCoordinator]

Init ==
    /\ now = 0
    /\ comp = [id \in SpawnPoints |-> Unborn]
    /\ entities = << >>
    /\ callqueue = {}
    /\ popups = {}
    /\ patrols = << >>
    \* the bases are numbered in the order of their first spawn point
    /\ home \in {h \in [SpawnPoints -> Bases] :
                    /\ h[1] = 1
                    /\ \A id \in SpawnPoints \ {1} :
                          \E j \in 1 .. (id - 1) : h[id] <= h[j] + 1}
    /\ baseFaction = [b \in Bases |-> OPFOR]
    /\ players = <<Player>>
    /\ trigLog = << >>
    /\ ticks = 0

\* the entity of a spawn point is created and its component initialised
EOnInit(id) ==
    /\ comp[id].life = "unborn"
    /\ comp' = [comp EXCEPT ![id] = NewComponent]
    /\ UNCHANGED <<now, entities, callqueue, popups, patrols, home, baseFaction,
                   players, trigLog, ticks>>

\* the capture system adds the spawn point to its patrols
Register(id) ==
    /\ comp[id].life = "alive"
    /\ id \notin Range(patrols)
    /\ patrols' = Append(patrols, id)
    /\ UNCHANGED <<now, comp, entities, callqueue, popups, home, baseFaction,
                   players, trigLog, ticks>>

\* a call of PrepareBase; ready: the bases are set up, so the call resolves
PrepareBaseCall(id, ready) ==
    /\ comp[id].life = "alive"
    /\ Commit(id, PrepareBase(Frame(id), id, IF ready THEN home[id] ELSE NoBase, now))
    /\ UNCHANGED <<now, popups, patrols, home, baseFaction, players, ticks>>

\* the callqueue runs a due entry of a living owner
Due(e, fn) ==
    /\ e \in callqueue
    /\ e.fn = fn
    /\ e.due = now
    /\ comp[e.owner].life = "alive"

\* the patrols are kept by the capture system: without it there are none
ElectionCall(e, autonomousSystem) ==
    /\ Due(e, "InitializeReinforcementCoordinator")
    /\ autonomousSystem \/ patrols = << >>
    /\ LET f  == [Frame(e.owner) EXCEPT !.cq = @ \ {e}]
       IN Commit(e.owner,
                 InitializeReinforcementCoordinator(f, e.owner, autonomousSystem,
                                                    patrols, comp, now))
    /\ UNCHANGED <<now, popups, patrols, home, baseFaction, players, ticks>>

\* the periodic entry runs CheckReinforcements and is due again an interval later
CheckCall(e, spawns) ==
    /\ Due(e, "CheckReinforcements")
    /\ LET c == comp[e.owner]
           f == [Frame(e.owner) EXCEPT
                   !.cq = (@ \ {e}) \cup {[e EXCEPT !.due = e.due + CHECK_INTERVAL]}]
       IN Commit(e.owner,
                 CheckReinforcements(f, e.owner,
                                     DetectCombatAtBase(c, baseFaction, TRUE, players),
                                     TRUE, now, spawns))
    /\ ticks' = ticks + 1
    /\ UNCHANGED <<now, popups, patrols, home, baseFaction, players>>

AlertCall(e) ==
    /\ Due(e, "DoSendReinforcementAlert")
    /\ DoSendReinforcementAlert(e, TRUE)

\* an entry whose owner was destroyed is dropped when it comes due
StaleCall(e) ==
    /\ e \in callqueue
    /\ e.due = now
    /\ comp[e.owner].life = "destroyed"
    /\ callqueue' = callqueue \ {e}
    /\ UNCHANGED <<now, comp, entities, popups, patrols, home, baseFaction, players,
                   trigLog, ticks>>

\* ~IPC_DefenderSpawnPointComponent: a coordinator removes its periodic check;
\* the capture system forgets the spawn point
RemoveFromSeq(s, x) == LET keep(y) == y # x IN SelectSeq(s, keep)

\* a destruction that promotes the lowest surviving sibling
Destroy_Failover(id) ==
    /\ comp[id].life = "alive"
    /\ LET heirs == {x \in SpawnPoints \ {id} :
                       comp[x].life = "alive" /\ comp[x].m_nearBase = comp[id].m_nearBase}
       IN comp' = [x \in SpawnPoints |->
                     IF x = id THEN Fallen(comp[id])
                     ELSE IF comp[id].m_bIsReinforcementCoordinator /\ x \in heirs
                             /\ \A y \in heirs : x <= y
                     THEN [comp[x] EXCEPT !.m_bIsReinforcementCoordinator = TRUE]
                     ELSE comp[x]]
    /\ callqueue' = IF comp[id].m_bIsReinforcementCoordinator
                    THEN {e \in callqueue : ~(e.fn = "CheckReinforcements" /\ e.owner = id)}
                    ELSE callqueue
    /\ patrols' = RemoveFromSeq(patrols, id)
    /\ UNCHANGED <<now, entities, popups, home, baseFaction, players, trigLog, ticks>>

\* a destruction whose Remove drops the periodic check of every spawn point
Destroy_RemoveAll(id) ==
    /\ comp[id].life = "alive"
    /\ comp' = [comp EXCEPT ![id] = Fallen(comp[id])]
    /\ callqueue' = IF comp[id].m_bIsReinforcementCoordinator
                    THEN {e \in callqueue : e.fn # "CheckReinforcements"}
                    ELSE callqueue
    /\ patrols' = RemoveFromSeq(patrols, id)
    /\ UNCHANGED <<now, entities, popups, home, baseFaction, players, trigLog, ticks>>

Destroy(id) ==
    /\ comp[id].life = "alive"
    /\ comp' = [comp EXCEPT ![id] = Fallen(comp[id])]
    /\ callqueue' = IF comp[id].m_bIsReinforcementCoordinator
                    THEN {e \in callqueue : ~(e.fn = "CheckReinforcements" /\ e.owner = id)}
                    ELSE callqueue
    /\ patrols' = RemoveFromSeq(patrols, id)
    /\ UNCHANGED <<now, entities, popups, home, baseFaction, players, trigLog, ticks>>

\* time passes, up to the next due entry and by a check interval at most
Advance(horizon) ==
    /\ \A e \in callqueue : e.due > now
    /\ now' = Min({now + CHECK_INTERVAL} \cup {e.due : e \in callqueue})
    /\ now' <= horizon
    /\ UNCHANGED <<comp, entities, callqueue, popups, patrols, home, baseFaction,
                   players, trigLog, ticks>>

Horizon == MaxIntervals * CHECK_INTERVAL

Next ==
    \/ \E id \in SpawnPoints : EOnInit(id)
    \/ \E id \in SpawnPoints : Register(id)
    \/ \E id \in SpawnPoints, ready \in BOOLEAN : PrepareBaseCall(id, ready)
    \/ \E e \in callqueue, autonomousSystem \in BOOLEAN : ElectionCall(e, autonomousSystem)
    \/ \E e \in callqueue : CheckCall(e, AllTuned)
    \/ \E e \in callqueue : StaleCall(e)
    \/ \E id \in SpawnPoints : Destroy(id)
    \/ Advance(Horizon)

Spec == Init /\ [][Next]_vars

(***************************************************************************)
(* Properties of the election                                              *)
(***************************************************************************)
\* the living spawn points whose m_nearBase is base b
BoundTo(b) == {id \in SpawnPoints : comp[id].life = "alive" /\ comp[id].m_nearBase = b}

Coordinators(b) == {id \in BoundTo(b) : comp[id].m_bIsReinforcementCoordinator}

\* the sequences that enumerate the elements of s in another order
Orders(s) ==
    {p \in [DOMAIN s -> Range(s)] :
        \A x \in Range(s) :
           Cardinality({i \in DOMAIN s : p[i] = x}) = Cardinality({i \in DOMAIN s : s[i] = x})}

\* C1: when all spawn points bound to a base were registered and bound to it
\* at the election of each of them (each ballot is the whole set), exactly
\* one of them is marked coordinator: the one with the lowest entity ID.
C1_OneCoordinatorLowestId ==
    \A b \in Bases :
       (BoundTo(b) # {} /\ \A id \in BoundTo(b) : comp[id].ballot = BoundTo(b))
          => Coordinators(b) = {Min(BoundTo(b))}

\* C1 witness: two spawn points of one base have both elected with both on
\* the ballot, registered in descending order of ID.
C1_Witness ==
    /\ BoundTo(1) = {1, 2}
    /\ \A id \in BoundTo(1) : comp[id].ballot = {1, 2}
    /\ patrols = <<2, 1>>
    /\ comp[1].m_bIsReinforcementCoordinator

\* C2 as claimed: whatever the order of registration, resolution and
\* elections, at no time are two living spawn points of one base marked
\* coordinator with their periodic check on the callqueue.
C2_AtMostOneCoordinator ==
    \A b \in Bases :
       Cardinality({id \in Coordinators(b) :
                       \E e \in callqueue : e.fn = "CheckReinforcements" /\ e.owner = id}) <= 1

\* C9: whichever spawn point evaluates and in whatever order the patrols are
\* enumerated, the loop yields the lowest entity ID among the evaluating spawn
\* point and the registered spawn points of its base.
C9_ElectionDeterministic ==
    \A id \in SpawnPoints :
       (comp[id].life = "alive" /\ comp[id].m_nearBase # NoBase) =>
          \A p \in Orders(patrols) :
             LowestIdForBase(p, comp, comp[id].m_nearBase, id)
                = Min({id} \cup {x \in Range(patrols) : comp[x].m_nearBase = comp[id].m_nearBase})

\* C9 witness: two spawn points of one base are registered with the higher ID
\* first, and the elections that ran on that list marked only the lower one.
C9_Witness ==
    /\ patrols = <<2, 1>>
    /\ comp[1].m_nearBase = comp[2].m_nearBase /\ comp[1].m_nearBase # NoBase
    /\ comp[1].ballot = {1, 2} /\ comp[2].ballot = {1, 2}
    /\ comp[1].m_bIsReinforcementCoordinator
    /\ ~comp[2].m_bIsReinforcementCoordinator

(***************************************************************************)
(* The siege: the spawn points of base 1 set themselves up within the      *)
(* first seconds, then the player walks up to the base and stays.          *)
(***************************************************************************)
\* length of a siege run, in check intervals
MaxSiegeIntervals == 22

SiegeHorizon == MaxSiegeIntervals * CHECK_INTERVAL
SetupWindow == COORDINATOR_DELAY

InitSiege ==
    /\ Init
    /\ home = [id \in SpawnPoints |-> 1]

\* every spawn point has run its election
SetupDone ==
    /\ \A id \in SpawnPoints : comp[id].life = "alive" /\ comp[id].m_bCoordinatorInitialized
    /\ \A e \in callqueue : e.fn # "InitializeReinforcementCoordinator"

\* the attack begins: from now on the player is within range of base 1
SiegeBegins ==
    /\ SetupDone
    /\ players[1].dist[1] = FarAway
    /\ players' = [players EXCEPT ![1].dist[1] = Nearby, ![1].since = now]
    /\ UNCHANGED <<now, comp, entities, callqueue, popups, patrols, home, baseFaction,
                   trigLog, ticks>>

NextSiege ==
    \/ \E id \in SpawnPoints : EOnInit(id) /\ now = 0
    \/ \E id \in SpawnPoints : Register(id) /\ now = 0
    \/ \E id \in SpawnPoints : PrepareBaseCall(id, TRUE) /\ now <= SetupWindow
    \/ \E e \in callqueue : ElectionCall(e, TRUE)
    \/ \E e \in callqueue : CheckCall(e, AllTuned)
    \/ \E e \in callqueue : AlertCall(e)
    \/ SiegeBegins
    \/ Advance(SiegeHorizon)

SpecSiege == InitSiege /\ [][NextSiege]_vars

(***************************************************************************)
(* Properties of the siege                                                 *)
(***************************************************************************)
UnderAttack(b) == players[1].dist[b] = Nearby
AttackAge == now - players[1].since

\* number of triggers of wave w at base b
TriggersAt(b, w) == Cardinality({i \in DOMAIN trigLog : trigLog[i].base = b /\ trigLog[i].wave = w})

\* number of triggers of wave w by coordinator id in the engagement begun at start
TriggersBy(id, start, w) ==
    Cardinality({i \in DOMAIN trigLog :
                    trigLog[i].sp = id /\ trigLog[i].start = start /\ trigLog[i].wave = w})

\* the tick of coordinator id that falls on this instant has not run yet
TickPending(id) ==
    \E e \in callqueue : e.fn = "CheckReinforcements" /\ e.owner = id /\ e.due <= now

\* C4 as claimed: any two triggers at the same strongpoint are at least the
\* cooldown (10 s) apart
C4_TriggersTenSecondsApart ==
    \A i, j \in DOMAIN trigLog :
        (i < j /\ trigLog[i].base = trigLog[j].base)
            => trigLog[j].at - trigLog[i].at >= COOLDOWN_SECONDS * 1000

\* C6 as claimed: 301 s into a continuous attack on a strongpoint exactly one
\* wave-1 trigger has occurred and its coordinators are at wave 1; 601 s into
\* it exactly one wave-2 trigger has occurred and they are at wave 2
C6_OnTheAttackClock ==
    UnderAttack(1) =>
        /\ (AttackAge >= 301000 /\ AttackAge < 600000) =>
              /\ TriggersAt(1, 1) = 1
              /\ \A id \in Coordinators(1) : comp[id].m_iReinforcementWave = 1
        /\ (AttackAge >= 601000 /\ AttackAge < 900000) =>
              /\ TriggersAt(1, 2) = 1
              /\ \A id \in Coordinators(1) : comp[id].m_iReinforcementWave = 2

\* C6, on the coordinator's clock: a coordinator's engagement starts at its
\* first detecting tick, at most one check interval after the attack began;
\* once 300 s of the engagement have elapsed and its tick of that instant has
\* run it has triggered wave 1 exactly once and is at wave 1, and once 600 s
\* have elapsed it has also triggered wave 2 exactly once and is at wave 2
C6_OnTheCoordinatorClock ==
    \A id \in SpawnPoints :
        LET c == comp[id]
            e == now - c.m_tCombatStartTime
        IN (c.m_bIsReinforcementCoordinator /\ c.m_bReinforcementActive /\ ~TickPending(id)) =>
              /\ c.m_tCombatStartTime - players[1].since >= 0
              /\ c.m_tCombatStartTime - players[1].since <= CHECK_INTERVAL
              /\ e < REINFORCEMENT_WAVE1_THRESHOLD * 1000 =>
                    /\ c.m_iReinforcementWave = 0
                    /\ TriggersBy(id, c.m_tCombatStartTime, 1) = 0
              /\ (e >= REINFORCEMENT_WAVE1_THRESHOLD * 1000
                    /\ e < REINFORCEMENT_WAVE2_THRESHOLD * 1000) =>
                    /\ c.m_iReinforcementWave = 1
                    /\ TriggersBy(id, c.m_tCombatStartTime, 1) = 1
                    /\ TriggersBy(id, c.m_tCombatStartTime, 2) = 0
              /\ (e >= REINFORCEMENT_WAVE2_THRESHOLD * 1000
                    /\ e < REINFORCEMENT_WAVE3_THRESHOLD * 1000) =>
                    /\ c.m_iReinforcementWave = 2
                    /\ TriggersBy(id, c.m_tCombatStartTime, 1) = 1
                    /\ TriggersBy(id, c.m_tCombatStartTime, 2) = 1

\* C6 witness: a coordinator whose engagement began a full check interval
\* after the attack has just triggered wave 2, 630 s into the attack
C6_Witness ==
    \E id \in SpawnPoints :
        /\ comp[id].m_bIsReinforcementCoordinator /\ comp[id].m_bReinforcementActive
        /\ comp[id].m_tCombatStartTime - players[1].since = CHECK_INTERVAL
        /\ now - comp[id].m_tCombatStartTime = REINFORCEMENT_WAVE2_THRESHOLD * 1000
        /\ comp[id].m_iReinforcementWave = 2
        /\ TriggersBy(id, comp[id].m_tCombatStartTime, 2) = 1

(***************************************************************************)
(* The guard machine: a resolved spawn point whose UpdateTarget is called  *)
(* with any sequence of ownership and frontline observations at any        *)
(* increasing times.                                                       *)
(***************************************************************************)
\* number of calls of UpdateTarget in a run of the guard machine
MaxEvaluations == 4

\* times between two calls, ms
GuardGaps == {1000, 300000, 599000, 600000}
\* what baseManager.GetBases(enemyBases, enemyFaction) can lie at, in units
EnemyDistances == SUBSET {FRONTLINE_RANGE - 1, FRONTLINE_RANGE}
\* every collaborator present, or exactly one of them null
CollaboratorCases ==
    {k \in Collaborators : Cardinality({x \in DOMAIN k : ~k[x]}) <= 1}

InitGuard ==
    /\ now = 0
    /\ comp = [id \in SpawnPoints |-> IF id = 1 THEN Coordinator(1) ELSE NewComponent]
    /\ entities = << >>
    /\ callqueue = {}
    /\ popups = {}
    /\ patrols = <<1>>
    /\ home = [id \in SpawnPoints |-> 1]
    \* the guard reads the owner of the spawn point's own base only; where the
    \* enemy bases stand is an input of the call
    /\ baseFaction \in {bf \in [Bases -> {OPFOR, BLUFOR}] :
                           \A b \in Bases \ {1} : bf[b] = OPFOR}
    /\ players = <<Player>>
    /\ trigLog = << >>
    /\ ticks = 0

\* one call of UpdateTarget on spawn point 1, d ms after the last
UpdateTargetCall(d, playerManager, collab, enemyDistances, worldOk) ==
    /\ ticks < MaxEvaluations
    /\ LET t == now + d
           f == UpdateTarget(Frame(1), 1, home[1], TRUE, baseFaction, playerManager,
                             players, collab, enemyDistances, worldOk, t)
           rear == /\ IsBaseFriendly(baseFaction, playerManager, players, f.c.m_nearBase)
                   /\ ~IsBaseOnFrontline(collab, enemyDistances)
           since == IF ~rear THEN NoTime
                    ELSE IF comp[1].rearSince = NoTime THEN t
                    ELSE comp[1].rearSince
           saw == IF ~IsBaseFriendly(baseFaction, playerManager, players, f.c.m_nearBase)
                  THEN "enemy-held"
                  ELSE IF collab # AllPresent THEN "unresolved"
                  ELSE IF IsBaseOnFrontline(collab, enemyDistances) THEN "frontline"
                  ELSE IF ~worldOk THEN "no-world"
                  ELSE "rear"
           grace == IF saw \in {"frontline", "unresolved"} THEN NoTime
                    ELSE IF saw = "rear" /\ comp[1].graceSince = NoTime THEN t
                    ELSE comp[1].graceSince
       IN Commit(1, [f EXCEPT !.c.evalAt = t, !.c.rearSince = since, !.c.evalSaw = saw,
                              !.c.graceSince = grace])
    /\ now' = now + d
    /\ ticks' = ticks + 1
    /\ UNCHANGED <<popups, patrols, home, baseFaction, players>>

\* the base is captured
BaseChangesHands(b, faction) ==
    /\ baseFaction[b] # faction
    /\ baseFaction' = [baseFaction EXCEPT ![b] = faction]
    /\ UNCHANGED <<now, comp, entities, callqueue, popups, patrols, home, players,
                   trigLog, ticks>>

NextGuard ==
    \/ \E d \in GuardGaps, collab \in CollaboratorCases, enemyDistances \in EnemyDistances,
          worldOk \in BOOLEAN :
          UpdateTargetCall(d, TRUE, collab, enemyDistances, worldOk)
    \/ \E d \in GuardGaps : UpdateTargetCall(d, FALSE, AllPresent, {}, TRUE)
    \/ \E faction \in {OPFOR, BLUFOR} : BaseChangesHands(home[1], faction)

SpecGuard == InitGuard /\ [][NextGuard]_vars

\* C10 as claimed: when UpdateTarget decides against keeping the defenders of
\* a base, every decision of at least the last 600 s classified the base
\* friendly-held and off the frontline
C10_FalseOnlyAfterContinuousRear ==
    \A id \in SpawnPoints :
        LET c == comp[id]
        IN (c.evalAt # NoTime /\ c.m_nearBase # NoBase /\ ~c.m_bIsNearTarget) =>
              /\ c.rearSince # NoTime
              /\ c.evalAt - c.rearSince >= INACTIVE_GRACE_PERIOD * 1000

\* the inactivity timer of a component has run out
TimerExpired(c, t) ==
    c.m_tInactiveSince # NoTime /\ t - c.m_tInactiveSince >= INACTIVE_GRACE_PERIOD * 1000

\* C11: for an enemy-held base the guard decides "remain active": the call of
\* UpdateTarget that has just found the base enemy-held (the clock has not
\* moved since) left near-target true, and ShouldKeepDefendersActive returns
\* true for an enemy-held base whatever the collaborators, the enemy
\* distances and the inactivity timer are.
C11_EnemyHeldAlwaysActive ==
    \A id \in SpawnPoints :
        /\ (comp[id].evalAt = now /\ comp[id].evalSaw = "enemy-held")
              => comp[id].m_bIsNearTarget
        /\ comp[id].m_nearBase # NoBase =>
              \A playerManager \in BOOLEAN :
                 ~IsBaseFriendly(baseFaction, playerManager, players, comp[id].m_nearBase) =>
                    \A collab \in CollaboratorCases, enemyDistances \in EnemyDistances,
                       worldOk \in BOOLEAN :
                       ShouldKeepDefendersActive(comp[id], baseFaction, playerManager,
                                                 players, collab, enemyDistances, worldOk,
                                                 now).keep

\* C11 witness: UpdateTarget has just found the base enemy-held, with an
\* inactivity timer that ran out, and the defenders remain active.
C11_Witness ==
    /\ comp[1].evalSaw = "enemy-held"
    /\ comp[1].evalAt = now
    /\ baseFaction[1] = OPFOR
    /\ TimerExpired(comp[1], now)
    /\ comp[1].m_bIsNearTarget

\* C17: the guard fails open: a call of UpdateTarget on a friendly-held base
\* with the game mode, the base manager, the faction manager, the own or the
\* enemy faction unresolved decides "remain active" and clears the timer.
C17_GuardFailsOpen ==
    [][\A id \in SpawnPoints :
         (comp'[id].evalAt # comp[id].evalAt /\ comp'[id].evalSaw = "unresolved")
            => /\ comp'[id].m_bIsNearTarget
               /\ comp'[id].m_tInactiveSince = NoTime]_vars

\* C17 witness: the second call of UpdateTarget, 600 s after the first, could
\* not resolve a collaborator and kept the defenders, with the timer cleared.
C17_Witness ==
    /\ comp[1].evalSaw = "unresolved"
    /\ comp[1].evalAt = 601000
    /\ ticks = 2
    /\ comp[1].m_bIsNearTarget
    /\ comp[1].m_tInactiveSince = NoTime

(***************************************************************************)
(* The detector machine: a coordinator whose CheckReinforcements runs      *)
(* against any base ownership and any list of connected players.           *)
(***************************************************************************)
\* number of connected players
MaxPlayers == 2
\* number of calls of CheckReinforcements in a run of the detector machine
MaxDetections == 2

\* a living enemy player just inside the detection range of base 1
Attacker ==
    [Player EXCEPT !.dist = [b \in Bases |-> IF b = 1 THEN COMBAT_DETECTION_RANGE - 1
                                                      ELSE FarAway]]

\* the attacker, and the attacker with one thing changed
PlayerKinds ==
    { Attacker,
      [Attacker EXCEPT !.entity = FALSE],
      [Attacker EXCEPT !.controller = FALSE],
      [Attacker EXCEPT !.dead = TRUE],
      [Attacker EXCEPT !.character = FALSE],
      [Attacker EXCEPT !.faction = NoFaction],
      [Attacker EXCEPT !.faction = OPFOR],
      [Attacker EXCEPT !.dist[1] = COMBAT_DETECTION_RANGE],
      [Attacker EXCEPT !.dist[1] = COMBAT_DETECTION_RANGE + 1] }

PlayerLists == UNION {[1 .. n -> PlayerKinds] : n \in 0 .. MaxPlayers}
Factions == {NoFaction, OPFOR, BLUFOR}

InitDetect ==
    /\ now = 0
    /\ comp = [id \in SpawnPoints |-> IF id = 1 THEN Coordinator(1) ELSE NewComponent]
    /\ entities = << >>
    /\ callqueue = {}
    /\ popups = {}
    /\ patrols = <<1>>
    /\ home = [id \in SpawnPoints |-> 1]
    /\ baseFaction \in {bf \in [Bases -> Factions] : \A b \in Bases \ {1} : bf[b] = OPFOR}
    /\ players \in PlayerLists
    /\ trigLog = << >>
    /\ ticks = 0

\* one call of CheckReinforcements on spawn point 1, a check interval after
\* the last, its detector reading the world as it is
DetectTick(playerManager) ==
    /\ ticks < MaxDetections
    /\ LET t == now + CHECK_INTERVAL
           combatActive == DetectCombatAtBase(comp[1], baseFaction, playerManager, players)
       IN Commit(1, CheckReinforcements(Frame(1), 1, combatActive, TRUE, t, AllTuned))
    /\ now' = now + CHECK_INTERVAL
    /\ ticks' = ticks + 1
    /\ UNCHANGED <<popups, patrols, home, baseFaction, players>>

\* a connected player dies, moves, changes faction, loses its entity, ...
PlayerChanges(i, kind) ==
    /\ i \in DOMAIN players
    /\ players[i] # kind
    /\ players' = [players EXCEPT ![i] = kind]
    /\ UNCHANGED <<now, comp, entities, callqueue, popups, patrols, home, baseFaction,
                   trigLog, ticks>>

NextDetect ==
    \/ \E playerManager \in BOOLEAN : DetectTick(playerManager)
    \/ \E i \in 1 .. MaxPlayers, kind \in PlayerKinds : PlayerChanges(i, kind)
    \/ \E faction \in Factions : BaseChangesHands(1, faction)

SpecDetect == InitDetect /\ [][NextDetect]_vars

\* the words of the detector's contract
Alive(p) == p.entity /\ p.controller /\ ~p.dead
Hostile(c, p) == p.character /\ p.faction # NoFaction /\ p.faction # c.m_Faction
StrongpointUnderAttack(c) ==
    /\ c.m_nearBase # NoBase
    /\ baseFaction[c.m_nearBase] = c.m_Faction
    /\ \E i \in DOMAIN players :
          /\ Hostile(c, players[i])
          /\ Alive(players[i])
          /\ players[i].dist[c.m_nearBase] < COMBAT_DETECTION_RANGE

\* C12: with the player manager present, DetectCombatAtBase returns true if
\* and only if the base's faction is the defending faction and some hostile
\* player is alive and less than 300 units from the base.
C12_DetectorIff ==
    \A id \in SpawnPoints :
        DetectCombatAtBase(comp[id], baseFaction, TRUE, players)
            <=> StrongpointUnderAttack(comp[id])

\* C12 witness: a tick has detected combat with one player exactly on the
\* 300-unit boundary and one attacker just inside it.
C12_Witness ==
    /\ ticks > 0
    /\ comp[1].m_bReinforcementActive
    /\ comp[1].m_tCombatStartTime = now
    /\ Len(players) = 2
    /\ players[1] = [Attacker EXCEPT !.dist[1] = COMBAT_DETECTION_RANGE]
    /\ players[2] = Attacker

\* a player without a controlled entity, without a controller or without a
\* faction
Unresolvable(p) == ~p.entity \/ ~p.controller \/ p.faction = NoFaction

\* C18: the detector fails closed: without a base reference, without a base
\* faction or without the player manager DetectCombatAtBase returns false,
\* and the players without a controlled entity, a controller or a faction
\* alone never make it return true.
C18_DetectorFailsClosed ==
    \A id \in SpawnPoints, playerManager \in BOOLEAN :
        LET c == comp[id]
        IN /\ (c.m_nearBase = NoBase \/ ~playerManager)
                 => ~DetectCombatAtBase(c, baseFaction, playerManager, players)
           /\ (c.m_nearBase # NoBase /\ baseFaction[c.m_nearBase] = NoFaction)
                 => ~DetectCombatAtBase(c, baseFaction, playerManager, players)
           /\ ~DetectCombatAtBase(c, baseFaction, playerManager,
                                  SelectSeq(players, Unresolvable))

\* C18 witness: a tick has run with an attacker in range of a base that has
\* no faction, and the coordinator is still idle.
C18_Witness ==
    /\ ticks > 0
    /\ baseFaction[1] = NoFaction
    /\ \E i \in DOMAIN players : players[i] = Attacker
    /\ \E i \in DOMAIN players : Unresolvable(players[i])
    /\ ~comp[1].m_bReinforcementActive
    /\ comp[1].m_tCombatStartTime = NoTime

(***************************************************************************)
(* The cleanup machine: a coordinator that tracks any collection of        *)
(* groups and helicopters, alive, dead, deleted or gone, and runs its two  *)
(* cleanups in any order.                                                  *)
(***************************************************************************)
\* number of tracked assets
MaxAssets == 3
\* number of cleanup calls in a run of the cleanup machine
MaxCleanups == 2

AssetKinds == {"FIRETEAM", "HELICOPTER"}
AssetStatuses == {"live", "empty", "deleted", "gone"}
Assets ==
    {e \in [kind : AssetKinds, status : AssetStatuses, owner : {1}, wave : {1}, at : {0},
             perception : {NoPerception, EXPERT_PERCEPTION}, skill : {NoSkill, "EXPERT"},
             skipped : {FALSE}] :
        /\ e.kind = "HELICOPTER" => e.status # "empty"
        /\ e.perception = NoPerception <=> e.kind = "HELICOPTER"
        /\ e.skill = NoSkill <=> e.kind = "HELICOPTER"}

\* the handles of a kind, in the order of their creation
RECURSIVE HandlesOf(_, _, _)
HandlesOf(ents, kinds, h) ==
    IF h > Len(ents) THEN << >>
    ELSE IF ents[h].kind \in kinds THEN <<h>> \o HandlesOf(ents, kinds, h + 1)
    ELSE HandlesOf(ents, kinds, h + 1)

InitCleanup ==
    /\ now = 0
    /\ entities \in UNION {[1 .. n -> Assets] : n \in 0 .. MaxAssets}
    /\ comp = [id \in SpawnPoints |->
                 IF id = 1
                 THEN [Coordinator(1) EXCEPT
                         !.m_aReinforcementGroups =
                             HandlesOf(entities, AssetKinds \ {"HELICOPTER"}, 1),
                         !.m_aReinforcementHelicopters =
                             HandlesOf(entities, {"HELICOPTER"}, 1)]
                 ELSE NewComponent]
    /\ callqueue = {}
    /\ popups = {}
    /\ patrols = <<1>>
    /\ home = [id \in SpawnPoints |-> 1]
    /\ baseFaction = [b \in Bases |-> OPFOR]
    /\ players = << >>
    /\ trigLog = << >>
    /\ ticks = 0

\* a call of DespawnPreviousWaveGroups on spawn point 1
DespawnCall ==
    /\ ticks < MaxCleanups
    /\ Commit(1, DespawnPreviousWaveGroups(Frame(1)))
    /\ ticks' = ticks + 1
    /\ UNCHANGED <<now, popups, patrols, home, baseFaction, players>>

\* a call of CleanupDeadReinforcementGroups on spawn point 1
SweepCall ==
    /\ ticks < MaxCleanups
    /\ Commit(1, CleanupDeadReinforcementGroups(Frame(1)))
    /\ ticks' = ticks + 1
    /\ UNCHANGED <<now, popups, patrols, home, baseFaction, players>>

NextCleanup ==
    \/ DespawnCall
    \/ SweepCall
    \/ \E h \in DOMAIN entities : GroupEliminated(h)

SpecCleanup == InitCleanup /\ [][NextCleanup]_vars

\* C13 as claimed: each of the two cleanups, invoked twice in a row, leaves
\* both tracked collections empty, and its second invocation changes nothing.
C13_CleanupsEmptyTheCollection ==
    LET d1 == DespawnPreviousWaveGroups(Frame(1))
        s1 == CleanupDeadReinforcementGroups(Frame(1))
    IN /\ DespawnPreviousWaveGroups(d1) = d1
       /\ Tracked(DespawnPreviousWaveGroups(d1).c) = {}
       /\ CleanupDeadReinforcementGroups(s1) = s1
       /\ Tracked(CleanupDeadReinforcementGroups(s1).c) = {}

\* C13 amended: both cleanups are idempotent; DespawnPreviousWaveGroups
\* leaves both collections empty and every tracked entity deleted or gone;
\* CleanupDeadReinforcementGroups leaves exactly the groups that still have
\* agents, each once (a survivor may change its position, and none does when
\* nothing is removed), touches no entity and no helicopter handle.
C13_CleanupIdempotent ==
    LET f  == Frame(1)
        d1 == DespawnPreviousWaveGroups(f)
        s1 == CleanupDeadReinforcementGroups(f)
        hasAgents(h) == GetAgentsCount(entities, h) > 0
    IN /\ DespawnPreviousWaveGroups(d1) = d1
       /\ Tracked(d1.c) = {}
       /\ \A h \in Tracked(f.c) : d1.ents[h].status \in {"deleted", "gone"}
       /\ CleanupDeadReinforcementGroups(s1) = s1
       /\ Range(s1.c.m_aReinforcementGroups) = Range(SelectSeq(f.c.m_aReinforcementGroups, hasAgents))
       /\ Len(s1.c.m_aReinforcementGroups) = Len(SelectSeq(f.c.m_aReinforcementGroups, hasAgents))
       /\ (\A h \in Range(f.c.m_aReinforcementGroups) : hasAgents(h)) => s1 = f
       /\ s1.c.m_aReinforcementHelicopters = f.c.m_aReinforcementHelicopters
       /\ s1.ents = f.ents

\* C13 witness: DespawnPreviousWaveGroups has run twice on a collection that
\* held a live, a deleted and a vanished asset; nothing is tracked any more.
C13_Witness ==
    /\ ticks = 2
    /\ Len(entities) = 3
    /\ entities[1].status = "deleted" /\ entities[1].kind = "FIRETEAM"
    /\ entities[2].status = "deleted" /\ entities[2].kind = "HELICOPTER"
    /\ entities[3].status = "gone"
    /\ Tracked(comp[1]) = {}

\* C14: only the coordinator owns escalation state: a living spawn point
\* that is not marked coordinator has no periodic check on the callqueue, has
\* triggered no wave, and its combat state and tracked assets are as
\* constructed.
C14_OnlyCoordinatorOwnsState ==
    \A id \in SpawnPoints :
        (comp[id].life = "alive" /\ ~comp[id].m_bIsReinforcementCoordinator) =>
            /\ \A e \in callqueue : ~(e.fn = "CheckReinforcements" /\ e.owner = id)
            /\ \A i \in DOMAIN trigLog : trigLog[i].sp # id
            /\ ~comp[id].m_bReinforcementActive
            /\ comp[id].m_iReinforcementWave = 0
            /\ comp[id].m_tCombatStartTime = NoTime
            /\ comp[id].m_tLastReinforcementTime = NoTime
            /\ comp[id].m_aReinforcementGroups = << >>
            /\ comp[id].m_aReinforcementHelicopters = << >>

\* C14 witness: spawn point 2 lost the election to spawn point 1, which has
\* since triggered wave 1 and tracks its group.
C14_Witness ==
    /\ comp[1].m_bIsReinforcementCoordinator
    /\ comp[1].m_iReinforcementWave = 1
    /\ comp[1].m_aReinforcementGroups # << >>
    /\ comp[2].m_bCoordinatorInitialized
    /\ comp[2].ballot = {1, 2}
    /\ ~comp[2].m_bIsReinforcementCoordinator
    /\ UnderAttack(1)

(***************************************************************************)
(* The first defender component of                                         *)
(* Modded_AutonomousCaptureSpawnPointComponent.c (lines 35-346): every     *)
(* spawn point schedules its own CheckReinforcements every 5 s in EOnInit, *)
(* there is no election, two waves, and the wave rides the base class's    *)
(* SpawnPatrol.  The class has no destructor.                              *)
(***************************************************************************)
\* "CallLater(CheckReinforcements, 5000, true)"
LEGACY_CHECK_INTERVAL == 5000
\* REINFORCEMENT_GROUP_COUNT of this component
LEGACY_REINFORCEMENT_GROUP_COUNT == 3
\* "CallLater(ResetToNormalSpawn, 10000, false)"
RESET_DELAY == 10000

\* number of 5 s periods the machine runs for
MaxLegacyPeriods == 64
LegacyHorizon == MaxLegacyPeriods * LEGACY_CHECK_INTERVAL
\* the spawn points that carry this component
LegacyPoints == {1}

\* SpawnPatrol of the modded base class.  super.SpawnPatrol() is the parent's
\* (not in this repository): it leaves m_Group null (result = "null") or
\* spawns the group with the skill and factor of its own.  The override then
\* reads GetPlayerManager().GetPlayerCount() without a null check: without a
\* player manager the call ends there.  With exactly one player connected
\* and m_Group set, every agent that has a controlled entity, an info
\* component and a combat component is set to EXPERT and 1.0; with any other
\* player count nothing is set.  NoPerception / NoSkill: this code has set
\* nothing, the group has what the parent gave it
SpawnPatrol(f, id, groupType, wave, t, result, playerManager) ==
    IF result = "null"
    THEN f
    ELSE LET looped == playerManager /\ Len(players) = 1
             configured == looped /\ result \in {"tuned", "partly"}
         IN [f EXCEPT
               !.ents = Append(@, [kind |-> groupType,
                                   status |-> IF result = "agentless" THEN "empty"
                                              ELSE "live",
                                   owner |-> id, wave |-> wave, at |-> t,
                                   perception |-> IF configured THEN SOLO_PERCEPTION
                                                  ELSE NoPerception,
                                   skill |-> IF configured THEN "EXPERT" ELSE NoSkill,
                                   skipped |-> looped /\ result \in {"partly", "untuned"}])]

\* ResetToNormalSpawn
ResetToNormalSpawn(f) == [f EXCEPT !.c.m_iNum = NORMAL_GROUP_COUNT]

LegacyResetReinforcementState(f) ==
    ResetToNormalSpawn([f EXCEPT !.c.m_bReinforcementActive = FALSE,
                                 !.c.m_iReinforcementWave = 0])

\* wave 2 is checked before wave 1; there is no third wave
LegacyWaveToTrigger(c, combatDurationMs) ==
    IF c.m_iReinforcementWave < 2
       /\ combatDurationMs >= REINFORCEMENT_WAVE2_THRESHOLD * 1000 THEN 2
    ELSE IF c.m_iReinforcementWave < 1
       /\ combatDurationMs >= REINFORCEMENT_WAVE1_THRESHOLD * 1000 THEN 1
    ELSE 0

\* the wave rides the spawn cycle: the alert is broadcast before the spawn
\* and whatever the spawn does.  The player manager is not null in
\* SpawnPatrol: the trigger is reached only in a tick whose
\* DetectCombatAtBase found it
LegacyTriggerReinforcements(f, id, wave, worldOk, t, result) ==
    IF ~worldOk
    THEN f
    ELSE
      LET f1 == [f EXCEPT
                   !.c.m_tLastReinforcementTime = t,
                   !.c.m_iReinforcementWave = wave,
                   !.c.m_iNum = LEGACY_REINFORCEMENT_GROUP_COUNT,
                   !.log = Append(@, [sp |-> id, base |-> f.c.m_nearBase, wave |-> wave,
                                      at |-> t, start |-> f.c.m_tCombatStartTime])]
          f2 == BroadcastReinforcementAlert(f1, id, wave, t)
          f3 == SpawnPatrol(f2, id, IF wave = 1 THEN "FIRETEAM" ELSE "SQUAD_RIFLE", wave, t,
                            result, TRUE)
      IN [f3 EXCEPT !.cq = @ \cup {[fn |-> "ResetToNormalSpawn", owner |-> id,
                                    due |-> t + RESET_DELAY, repeat |-> FALSE,
                                    wave |-> 0]}]

LegacyUpdateReinforcementState(f, id, combatActive, worldOk, currentTime, result) ==
    IF ~worldOk
    THEN f
    ELSE
      LET f1 == StartTracking(f, combatActive, currentTime)
          combatDurationMs == DiffMilliseconds(currentTime, f1.c.m_tCombatStartTime)
          wave == LegacyWaveToTrigger(f1.c, combatDurationMs)
      IN IF ~combatActive /\ f1.c.m_bReinforcementActive
         THEN LegacyResetReinforcementState(f1)
         ELSE IF ~f1.c.m_bReinforcementActive
         THEN f1
         ELSE IF InCooldown(f1.c, currentTime)
         THEN f1
         ELSE IF wave # 0
         THEN LegacyTriggerReinforcements(f1, id, wave, worldOk, currentTime, result)
         ELSE f1

\* CheckReinforcements without a coordinator guard
LegacyCheckReinforcements(f, id, combatActive, worldOk, t, result) ==
    IF f.c.m_nearBase = NoBase
    THEN f
    ELSE LegacyUpdateReinforcementState(f, id, combatActive, worldOk, t, result)

\* a living player character of the other side who stands at base 1
Besieger == [Player EXCEPT !.dist[1] = Nearby, !.since = 0]

InitLegacy ==
    /\ now = 0
    /\ comp = [id \in SpawnPoints |-> Unborn]
    /\ entities = << >>
    /\ callqueue = {}
    /\ popups = {}
    /\ patrols = << >>
    /\ home = [id \in SpawnPoints |-> 1]
    /\ baseFaction = [b \in Bases |-> OPFOR]
    /\ players = <<Besieger>>
    /\ trigLog = << >>
    /\ ticks = 0

\* EOnInit: the spawn point schedules its own periodic check
LegacyEOnInit(id) ==
    /\ now = 0
    /\ comp[id].life = "unborn"
    /\ comp' = [comp EXCEPT ![id] = NewComponent]
    /\ callqueue' = callqueue \cup {[fn |-> "CheckReinforcements", owner |-> id,
                                     due |-> now + LEGACY_CHECK_INTERVAL,
                                     repeat |-> TRUE, wave |-> 0]}
    /\ UNCHANGED <<now, entities, popups, patrols, home, baseFaction, players,
                   trigLog, ticks>>

\* the base class resolves the base the spawn point defends
LegacyPrepareBase(id) ==
    /\ now <= LEGACY_CHECK_INTERVAL
    /\ comp[id].life = "alive"
    /\ comp[id].m_nearBase = NoBase
    /\ comp' = [comp EXCEPT ![id].m_nearBase = home[id]]
    /\ UNCHANGED <<now, entities, callqueue, popups, patrols, home, baseFaction,
                   players, trigLog, ticks>>

\* result: what the spawn of a wave this tick triggers comes to
LegacyCheckCall(e, result) ==
    /\ Due(e, "CheckReinforcements")
    /\ LET c == comp[e.owner]
           f == [Frame(e.owner) EXCEPT
                   !.cq = (@ \ {e}) \cup {[e EXCEPT !.due = e.due + LEGACY_CHECK_INTERVAL]}]
       IN Commit(e.owner,
                 LegacyCheckReinforcements(f, e.owner,
                                           DetectCombatAtBase(c, baseFaction, TRUE, players),
                                           TRUE, now, result))
    /\ ticks' = ticks + 1
    /\ UNCHANGED <<now, popups, patrols, home, baseFaction, players>>

\* DoSendReinforcementAlert: it returns without the capture system and
\* without the player manager; else PopUpMessage is called once for every
\* player who controls an entity that is a character.  The patrols are kept
\* by the capture system and the players by the player manager: without the
\* one there are no patrols, without the other no players
LegacyAlertCall(e, autonomousCaptureSystem, playerManager) ==
    /\ Due(e, "DoSendReinforcementAlert")
    /\ autonomousCaptureSystem \/ patrols = << >>
    /\ playerManager \/ players = << >>
    /\ callqueue' = callqueue \ {e}
    /\ popups' = IF ~autonomousCaptureSystem
                 THEN popups
                 ELSE IF ~playerManager
                 THEN popups
                 ELSE popups \cup {[owner |-> e.owner, wave |-> e.wave, player |-> i] :
                                      i \in {j \in DOMAIN players :
                                                players[j].entity /\ players[j].character}}
    /\ UNCHANGED <<now, comp, entities, patrols, home, baseFaction, players,
                   trigLog, ticks>>

LegacyResetCall(e) ==
    /\ Due(e, "ResetToNormalSpawn")
    /\ Commit(e.owner, ResetToNormalSpawn([Frame(e.owner) EXCEPT !.cq = @ \ {e}]))
    /\ UNCHANGED <<now, popups, patrols, home, baseFaction, players, ticks>>

\* the entity of the spawn point is deleted: this component has no
\* destructor, so nothing is removed from the callqueue
LegacyDestroy(id) ==
    /\ comp[id].life = "alive"
    /\ comp' = [comp EXCEPT ![id] = Destroyed]
    /\ UNCHANGED <<now, entities, callqueue, popups, patrols, home, baseFaction,
                   players, trigLog, ticks>>

\* the periodic entry of a destroyed owner comes due and the callqueue calls
\* it: the call has no living object to act on, and the entry stays
\* scheduled.  (StaleCall is the other outcome: the callqueue drops it.)
StaleTick(e) ==
    /\ e \in callqueue
    /\ e.fn = "CheckReinforcements"
    /\ e.due = now
    /\ comp[e.owner].life = "destroyed"
    /\ callqueue' = (callqueue \ {e}) \cup {[e EXCEPT !.due = e.due + LEGACY_CHECK_INTERVAL]}
    /\ ticks' = ticks + 1
    /\ UNCHANGED <<now, comp, entities, popups, patrols, home, baseFaction, players,
                   trigLog>>

NextLegacy ==
    \/ \E id \in LegacyPoints : LegacyEOnInit(id)
    \/ \E id \in LegacyPoints : LegacyPrepareBase(id)
    \/ \E e \in callqueue, result \in SpawnResults : LegacyCheckCall(e, result)
    \/ \E e \in callqueue, autonomousCaptureSystem \in BOOLEAN, playerManager \in BOOLEAN :
          LegacyAlertCall(e, autonomousCaptureSystem, playerManager)
    \/ \E e \in callqueue : LegacyResetCall(e)
    \/ \E e \in callqueue : StaleCall(e)
    \/ \E e \in callqueue : StaleTick(e)
    \/ \E id \in LegacyPoints : LegacyDestroy(id)
    \/ Advance(LegacyHorizon)

SpecLegacy == InitLegacy /\ [][NextLegacy]_vars

\* the periodic entry of spawn point id is called in this step
TickRuns(id) ==
    \E e \in callqueue :
        /\ e.fn = "CheckReinforcements" /\ e.owner = id /\ e.due = now
        /\ [e EXCEPT !.due = e.due + LEGACY_CHECK_INTERVAL] \in callqueue'
        /\ ticks' = ticks + 1

\* C15: once a spawn point that schedules the tick is destroyed, its
\* CheckReinforcements registration is gone from the callqueue and no tick is
\* run against it, in every variant of the component
C15_TickCancelledOnDestroy ==
    [][\A id \in SpawnPoints :
          comp[id].life = "destroyed" =>
             /\ ~\E e \in callqueue : e.fn = "CheckReinforcements" /\ e.owner = id
             /\ ~TickRuns(id)]_vars

\* C19: with exactly one player connected, every AI group this addon
\* spawned (the standing patrol and the reinforcement groups alike) has
\* perception factor 1.0
C19_SoloPerceptionIsOne ==
    Len(players) = 1 =>
        \A h \in DOMAIN entities :
            entities[h].kind # "HELICOPTER" => entities[h].perception = SOLO_PERCEPTION

\* the notification a trigger schedules
AlertOf(e) == [fn |-> "DoSendReinforcementAlert", owner |-> e.sp, due |-> e.at + ALERT_DELAY, repeat |-> FALSE, wave |-> e.wave]

\* C16: a wave trigger of the direct-spawn orchestrator attempts every group
\* of the wave, so each spawn call that does not fail adds its group whatever
\* happened to the calls before it, and it schedules the notification if and
\* only if at least one group was spawned
C16_AlertIffSomeSpawned ==
    [][Len(trigLog') = Len(trigLog) + 1 =>
         LET e == trigLog'[Len(trigLog')]
             new == DOMAIN entities' \ DOMAIN entities
         IN /\ Cardinality(new) = e.requested - Cardinality(e.failed)
            /\ \A h \in new : h \in Range(comp'[e.sp].m_aReinforcementGroups)
            /\ e.wave = 3 =>
                 /\ (\E h \in new : entities'[h].kind = "SQUAD_RIFLE") <=> 1 \notin e.failed
                 /\ (\E h \in new : entities'[h].kind = "FIRETEAM") <=> 2 \notin e.failed
            /\ AlertOf(e) \notin callqueue
            /\ AlertOf(e) \in callqueue' <=> new # {}]_vars

\* C16 witness: a wave 3 whose squad failed to spawn and whose fireteam was
\* spawned, with the notification scheduled, and an earlier wave none of whose
\* groups was spawned
C16_Witness ==
    \E i, j \in DOMAIN trigLog :
        /\ trigLog[i].wave = 3 /\ trigLog[i].failed = {1}
        /\ trigLog[i].at = now
        /\ AlertOf(trigLog[i]) \in callqueue
        /\ \E h \in DOMAIN entities :
              entities[h].wave = 3 /\ entities[h].at = now /\ entities[h].kind = "FIRETEAM"
        /\ j < i
        /\ trigLog[j].failed = 1 .. trigLog[j].requested
        /\ ~\E h \in DOMAIN entities : entities[h].at = trigLog[j].at

\* C20: beyond 10 minutes of fighting no more reinforcements spawn for the
\* base: within one engagement at most two waves are triggered, and no wave
\* is triggered after wave 2
C20_NoWaveBeyondTenMinutes ==
    \A i \in DOMAIN trigLog :
        /\ trigLog[i].wave <= 2
        /\ Cardinality({j \in DOMAIN trigLog : SameEngagement(i, j)}) <= 2
        /\ \A j \in DOMAIN trigLog :
              SameEngagement(i, j) /\ trigLog[i].wave = 2 => j <= i

(***************************************************************************)
(* The sortie machine: the elected coordinator of base 1 ticks every       *)
(* CHECK_INTERVAL while a hostile player walks in and out of range of the  *)
(* base at any time, also between two ticks.                               *)
(***************************************************************************)
\* number of check intervals the machine runs for
MaxSortieIntervals == 12
SortieHorizon == MaxSortieIntervals * CHECK_INTERVAL
\* the instants between two ticks at which the player may move, ms apart
SortieStep == 15000

\* the instant the election of spawn point 1 has made it the coordinator and
\* scheduled its periodic check
InitSortie ==
    /\ now = 0
    /\ comp = [id \in SpawnPoints |-> IF id = 1 THEN Coordinator(1) ELSE NewComponent]
    /\ entities = << >>
    /\ callqueue = {[fn |-> "CheckReinforcements", owner |-> 1, due |-> CHECK_INTERVAL,
                     repeat |-> TRUE, wave |-> 0]}
    /\ popups = {}
    /\ patrols = <<1>>
    /\ home = [id \in SpawnPoints |-> 1]
    /\ baseFaction = [b \in Bases |-> OPFOR]
    /\ players = <<Player>>
    /\ trigLog = << >>
    /\ ticks = 0

\* the player comes within range of base 1
PlayerArrives ==
    /\ players[1].dist[1] = FarAway
    /\ players' = [players EXCEPT ![1].dist[1] = Nearby, ![1].since = now]
    /\ UNCHANGED <<now, comp, entities, callqueue, popups, patrols, home, baseFaction,
                   trigLog, ticks>>

\* the player leaves the range of base 1
PlayerLeaves ==
    /\ players[1].dist[1] = Nearby
    /\ players' = [players EXCEPT ![1].dist[1] = FarAway, ![1].since = NoTime]
    /\ UNCHANGED <<now, comp, entities, callqueue, popups, patrols, home, baseFaction,
                   trigLog, ticks>>

\* time passes, up to the next due entry and by a sortie step at most
Pass(horizon) ==
    /\ \A e \in callqueue : e.due > now
    /\ now' = Min({now + SortieStep} \cup {e.due : e \in callqueue})
    /\ now' <= horizon
    /\ UNCHANGED <<comp, entities, callqueue, popups, patrols, home, baseFaction,
                   players, trigLog, ticks>>

NextSortie ==
    \/ \E e \in callqueue : CheckCall(e, AllTuned)
    \/ \E e \in callqueue : AlertCall(e)
    \/ PlayerArrives
    \/ PlayerLeaves
    \/ Pass(SortieHorizon)

SpecSortie == InitSortie /\ [][NextSortie]_vars

\* C21: the timer resets whenever the hostile players in range have all left:
\* a wave is triggered only when a hostile player has been within range of
\* the base without interruption for the threshold of that wave
C21_TimerResetsWhenPlayersLeave ==
    [][Len(trigLog') = Len(trigLog) + 1 =>
         LET e == trigLog'[Len(trigLog')]
         IN /\ players[1].since # NoTime
            /\ now - players[1].since >= GetWaveThreshold(e.wave) * 1000]_vars

\* the spawn points of base b that were destroyed while marked coordinator
FallenCoordinators(b) ==
    {id \in SpawnPoints : /\ comp[id].life = "destroyed"
                          /\ comp[id].m_nearBase = b
                          /\ comp[id].m_bIsReinforcementCoordinator}

\* C22 as claimed: once the coordinator of a base is destroyed, no spawn
\* point of that base is marked coordinator at any later time
C22_NoCoordinatorAfterDestruction ==
    \A b \in Bases : FallenCoordinators(b) # {} => Coordinators(b) = {}

\* the election of spawn point id is on the callqueue
ElectionPending(id) ==
    \E e \in callqueue : e.fn = "InitializeReinforcementCoordinator" /\ e.owner = id

\* C22, for the spawn points that have elected: the mark of a living spawn
\* point is the result of its own election and of nothing else.  Before its
\* election it is unmarked; after it, it is marked exactly if it was the
\* lowest ID on its ballot, no further election of it is pending, and this
\* stays so whoever is destroyed or registers later: a sibling that lost its
\* election to a coordinator that has been destroyed since stays unmarked.
C22_MarkFrozenAtElection ==
    \A id \in SpawnPoints :
        comp[id].life = "alive" =>
           IF comp[id].ballot = {}
           THEN ~comp[id].m_bIsReinforcementCoordinator
           ELSE /\ comp[id].m_bIsReinforcementCoordinator <=> id = Min(comp[id].ballot)
                /\ ~ElectionPending(id)

\* C22 witness: spawn point 1 won the election of base 1 and was destroyed;
\* spawn point 2, which had lost to it, lives on unmarked.
C22_Witness ==
    /\ FallenCoordinators(1) = {1}
    /\ comp[2].life = "alive"
    /\ comp[2].m_nearBase = 1
    /\ comp[2].ballot = {1, 2}
    /\ ~comp[2].m_bIsReinforcementCoordinator
    /\ Coordinators(1) = {}

\* the highest wave UpdateReinforcementState checks for
MaxWave == Max(EvaluatedWaves)

\* C23: once the coordinator is at the highest wave the code checks for, a
\* tick triggers nothing more in that engagement: whatever the next tick
\* observes and whenever it comes, it adds no trigger, and it leaves the
\* coordinator engaged at that wave unless it observes that combat has ceased
\* (then it resets)
C23_TerminalAtMaxWave ==
    LET c == comp[1]
    IN (c.m_bReinforcementActive /\ c.m_iReinforcementWave = MaxWave) =>
          \A d \in TickGaps, combatActive \in BOOLEAN, worldOk \in BOOLEAN,
             spawns \in SpawnFailures :
             LET f == CheckReinforcements(Frame(1), 1, combatActive, worldOk, now + d, spawns)
             IN /\ f.log = trigLog
                /\ f.cq = callqueue
                /\ f.ents = entities
                /\ f.c.m_tCombatStartTime = c.m_tCombatStartTime
                /\ IF combatActive \/ ~worldOk
                   THEN f.c.m_bReinforcementActive /\ f.c.m_iReinforcementWave = MaxWave
                   ELSE ~f.c.m_bReinforcementActive /\ f.c.m_iReinforcementWave = 0

\* C23 witness: the coordinator triggered the highest wave at an earlier
\* tick, a later tick has run since, and it is still engaged at that wave
C23_Witness ==
    /\ comp[1].m_bReinforcementActive
    /\ comp[1].m_iReinforcementWave = MaxWave
    /\ trigLog # << >>
    /\ trigLog[Len(trigLog)].wave = MaxWave
    /\ trigLog[Len(trigLog)].start = comp[1].m_tCombatStartTime
    /\ trigLog[Len(trigLog)].at < now

\* the coordinator after a tick at time t that detects combat
AfterCombatTick(t, spawns) == CheckReinforcements(Frame(1), 1, TRUE, TRUE, t, spawns).c

\* C24 as claimed: a tick that detects combat 1200 s or more into the
\* engagement, outside the cooldown, leaves the coordinator at wave 4
C24_FourthWaveFires ==
    comp[1].m_bReinforcementActive =>
       \A d \in TickGaps, spawns \in SpawnFailures :
          (/\ now + d - comp[1].m_tCombatStartTime >= REINFORCEMENT_WAVE4_THRESHOLD * 1000
           /\ ~InCooldown(comp[1], now + d))
          => AfterCombatTick(now + d, spawns).m_iReinforcementWave = 4

\* C24 with the waves the code checks for: a tick that detects combat,
\* outside the cooldown, leaves the engaged coordinator at wave 3 from 900 s
\* of the engagement on (also from 1200 s on), at wave 2 or higher from 600 s
\* on and at wave 1 or higher from 300 s on; a fourth wave is never triggered
C24_ThreeWavesFire ==
    /\ \A i \in DOMAIN trigLog : trigLog[i].wave \in EvaluatedWaves
    /\ comp[1].m_iReinforcementWave \in 0 .. MaxWave
    /\ comp[1].m_bReinforcementActive =>
          \A d \in TickGaps, spawns \in SpawnFailures :
             LET e == now + d - comp[1].m_tCombatStartTime
                 w == AfterCombatTick(now + d, spawns).m_iReinforcementWave
             IN ~InCooldown(comp[1], now + d) =>
                   /\ e >= REINFORCEMENT_WAVE3_THRESHOLD * 1000 => w = 3
                   /\ (e >= REINFORCEMENT_WAVE2_THRESHOLD * 1000
                         /\ e < REINFORCEMENT_WAVE3_THRESHOLD * 1000) =>
                         w = Max({2, comp[1].m_iReinforcementWave})
                   /\ (e >= REINFORCEMENT_WAVE1_THRESHOLD * 1000
                         /\ e < REINFORCEMENT_WAVE2_THRESHOLD * 1000) =>
                         w = Max({1, comp[1].m_iReinforcementWave})

\* C24 witness: the tick of this instant, 1200 s or more into the engagement,
\* has triggered wave 3, after wave 2 earlier in the same engagement
C24_Witness ==
    /\ comp[1].m_bReinforcementActive
    /\ now - comp[1].m_tCombatStartTime >= REINFORCEMENT_WAVE4_THRESHOLD * 1000
    /\ comp[1].m_iReinforcementWave = 3
    /\ Len(trigLog) >= 2
    /\ trigLog[Len(trigLog)].at = now
    /\ trigLog[Len(trigLog)].wave = 3
    /\ trigLog[Len(trigLog) - 1].wave = 2
    /\ SameEngagement(Len(trigLog), Len(trigLog) - 1)

\* C25: at most one wave fires per tick: a step records at most one trigger
\* and spawns groups of that wave only, even when the thresholds of several
\* waves that have not fired are reached; the wave it fires is higher than
\* every wave fired before in the engagement, so a lower wave that was
\* skipped is not fired on a later tick
C25_OneWavePerTick ==
    [][/\ Len(trigLog') <= Len(trigLog) + 1
       /\ Len(trigLog') = Len(trigLog) + 1 =>
            LET e == trigLog'[Len(trigLog')]
            IN /\ \A i \in DOMAIN trigLog :
                     (trigLog[i].sp = e.sp /\ trigLog[i].start = e.start)
                        => trigLog[i].wave < e.wave
               /\ \A h \in DOMAIN entities' \ DOMAIN entities : entities'[h].wave = e.wave
       /\ Len(trigLog') = Len(trigLog) => Len(entities') = Len(entities)]_vars

\* C25 witness: the thresholds of waves 1 and 2 were both reached at the tick
\* that fired wave 2; wave 1 never fired in this engagement, and a later tick
\* has run with the coordinator still engaged at wave 2
C25_Witness ==
    /\ comp[1].m_bReinforcementActive
    /\ comp[1].m_iReinforcementWave = 2
    /\ trigLog # << >>
    /\ LET e == trigLog[Len(trigLog)]
       IN /\ e.wave = 2
          /\ e.start = comp[1].m_tCombatStartTime
          /\ e.at < now
          /\ ~\E i \in DOMAIN trigLog : trigLog[i].start = e.start /\ trigLog[i].wave = 1

\* C26: disengagement is a full reset.  For an idle coordinator, whatever
\* the engagement before left behind, the next tick that detects combat sets
\* the combat start time to the time of that tick, with wave 0 and without a
\* trigger; and a tick of an engaged coordinator triggers a wave only when
\* the threshold of that wave (300 s at least) has elapsed since that start
C26_FullResetNotPause ==
    /\ \A i \in DOMAIN trigLog :
          trigLog[i].at - trigLog[i].start >= GetWaveThreshold(trigLog[i].wave) * 1000
    /\ \A d \in TickGaps, spawns \in SpawnFailures :
          LET f == CheckReinforcements(Frame(1), 1, TRUE, TRUE, now + d, spawns)
          IN IF ~comp[1].m_bReinforcementActive
             THEN /\ f.c.m_bReinforcementActive
                  /\ f.c.m_tCombatStartTime = now + d
                  /\ f.c.m_iReinforcementWave = 0
                  /\ f.log = trigLog
             ELSE f.log # trigLog =>
                     /\ f.c.m_tCombatStartTime = comp[1].m_tCombatStartTime
                     /\ now + d - comp[1].m_tCombatStartTime
                           >= REINFORCEMENT_WAVE1_THRESHOLD * 1000

\* C26 witness: after an engagement in which a wave fired and a tick that
\* reset it, the tick of this instant has re-engaged: the start time is now,
\* the wave is 0, and the last wave time of the earlier engagement is still set
C26_Witness ==
    /\ comp[1].m_bReinforcementActive
    /\ comp[1].m_tCombatStartTime = now
    /\ comp[1].m_iReinforcementWave = 0
    /\ comp[1].m_tLastReinforcementTime # NoTime
    /\ \E i \in DOMAIN trigLog : trigLog[i].wave >= 2 /\ trigLog[i].at < now

(***************************************************************************)
(* The orphan machine: the tick machine in which the base of the           *)
(* coordinator can be deleted, so that m_nearBase reads null from then on. *)
(***************************************************************************)
\* the base entity is deleted: the reference of the spawn point is gone
StrongpointGone(id) ==
    /\ comp[id].life = "alive"
    /\ comp[id].m_nearBase # NoBase
    /\ comp' = [comp EXCEPT ![id].m_nearBase = NoBase]
    /\ UNCHANGED <<now, entities, callqueue, popups, patrols, home, baseFaction, players,
                   trigLog, ticks>>

NextOrphan ==
    \/ NextTicks
    \/ StrongpointGone(1)

SpecOrphan == InitTicks /\ [][NextOrphan]_vars

\* C27: a scheduled callback that runs for a spawn point whose strongpoint
\* reference is gone is a no-op: the periodic tick and the delayed
\* notification change no state of the component, spawn nothing, record
\* nothing and send nothing
C27_CallbacksNoOpWithoutStrongpoint ==
    [][/\ (ticks' = ticks + 1 /\ comp[1].m_nearBase = NoBase) =>
             /\ comp' = comp /\ entities' = entities /\ trigLog' = trigLog
             /\ popups' = popups /\ callqueue' = callqueue
       /\ \A e \in callqueue :
             (comp[e.owner].m_nearBase = NoBase /\ e \notin callqueue') =>
                /\ comp' = comp /\ entities' = entities /\ trigLog' = trigLog
                /\ popups' = popups]_vars

(***************************************************************************)
(* The attrition machine: the coordinator of base 1 ticks while its        *)
(* reinforcement groups lose their last agent or are deleted by the game.  *)
(***************************************************************************)
\* times between two calls of the attrition machine, ms
AttritionGaps == {5000, 300000}

\* the game deletes a tracked entity: every handle to it reads null
AssetDestroyed(h) ==
    /\ entities[h].status \in {"live", "empty"}
    /\ entities' = [entities EXCEPT ![h].status = "gone"]
    /\ UNCHANGED <<now, comp, callqueue, popups, patrols, home, baseFaction, players,
                   trigLog, ticks>>

\* the spawn calls of a wave fail, give a group without agents or a group
\* with every agent configured
AttritionOutcomes == [SpawnCalls -> {"null", "agentless", "tuned"}]

NextAttrition ==
    \/ \E d \in AttritionGaps, combatActive \in BOOLEAN, spawns \in AttritionOutcomes :
          TickCall(d, combatActive, TRUE, spawns)
    \/ \E h \in DOMAIN entities : GroupEliminated(h)
    \/ \E h \in DOMAIN entities : AssetDestroyed(h)
    \/ \E e \in callqueue : DoSendReinforcementAlert(e, TRUE)

SpecAttrition == InitTicks /\ [][NextAttrition]_vars

\* the handles a component tracks
TrackedGroups(c) == {c.m_aReinforcementGroups[i] : i \in DOMAIN c.m_aReinforcementGroups}
TrackedHelicopters(c) ==
    {c.m_aReinforcementHelicopters[i] : i \in DOMAIN c.m_aReinforcementHelicopters}

\* C28: after every completed tick of the coordinator, no entity that was
\* destroyed or had lost its last member before the tick's cleanup pass is
\* still in the tracked groups or the tracked helicopters
C28_NoStaleHandleAfterTick ==
    [][(ticks' = ticks + 1 /\ comp[1].m_bIsReinforcementCoordinator
          /\ comp[1].m_nearBase # NoBase) =>
          \A h \in DOMAIN entities :
             (IsNull(entities, h) \/ IsDeleted(entities, h)
                \/ (entities[h].kind # "HELICOPTER" /\ GetAgentsCount(entities, h) = 0)) =>
                /\ h \notin TrackedGroups(comp'[1])
                /\ h \notin TrackedHelicopters(comp'[1])]_vars

\* C28 witness: a tick has swept a destroyed group and a group without
\* agents out of the tracked groups and kept a group that is still alive.
C28_Witness ==
    /\ ticks > 0
    /\ \E h \in DOMAIN entities :
          IsNull(entities, h) /\ h \notin TrackedGroups(comp[1])
    /\ \E h \in DOMAIN entities :
          entities[h].status = "empty" /\ h \notin TrackedGroups(comp[1])
    /\ \E h \in TrackedGroups(comp[1]) : entities[h].status = "live"

(***************************************************************************)
(* The theatre machine: every base has its own elected coordinator; the    *)
(* bases are attacked, tick, trigger waves whose spawns may fail, and lose *)
(* their coordinator, independently of each other.                         *)
(***************************************************************************)
\* length of a run of the theatre machine, in check intervals
MaxTheatreIntervals == 11
TheatreHorizon == MaxTheatreIntervals * CHECK_INTERVAL
\* the attacks begin within the first check interval
SiegeWindow == CHECK_INTERVAL

\* spawn point id stands at base id; a spawn point beyond the last base joins
\* the last base behind its coordinator
TheatreHome(id) == IF id \in Bases THEN id ELSE NumBases

\* the instant the last election has run: the lowest spawn point of every
\* base is its coordinator and has scheduled its periodic check
InitTheatre ==
    /\ now = 0
    /\ comp = [id \in SpawnPoints |->
                 IF id \in Bases THEN Coordinator(id)
                 ELSE [Coordinator(TheatreHome(id)) EXCEPT
                         !.m_bIsReinforcementCoordinator = FALSE]]
    /\ entities = << >>
    \* spawn point 1 was elected at this instant or a settling delay earlier
    /\ \E first \in {CHECK_INTERVAL - COORDINATOR_DELAY, CHECK_INTERVAL} :
          callqueue = {[fn |-> "CheckReinforcements", owner |-> id,
                        due |-> IF id = 1 THEN first ELSE CHECK_INTERVAL,
                        repeat |-> TRUE, wave |-> 0] : id \in SpawnPoints \cap Bases}
    /\ popups = {}
    /\ patrols = [i \in SpawnPoints |-> i]
    /\ home = [id \in SpawnPoints |-> TheatreHome(id)]
    /\ baseFaction = [b \in Bases |-> OPFOR]
    /\ players = <<Player>>
    /\ trigLog = << >>
    /\ ticks = 0

\* the player comes within range of base b and stays
SiegeAt(b) ==
    /\ now <= SiegeWindow
    /\ players[1].dist[b] = FarAway
    /\ players' = [players EXCEPT ![1].dist[b] = Nearby]
    /\ UNCHANGED <<now, comp, entities, callqueue, popups, patrols, home, baseFaction,
                   trigLog, ticks>>

NextTheatre ==
    \/ \E e \in callqueue, spawns \in SpawnFailures : CheckCall(e, spawns)
    \/ \E e \in callqueue : AlertCall(e)
    \/ \E e \in callqueue : StaleCall(e)
    \/ \E id \in SpawnPoints : Destroy(id)
    \/ \E b \in Bases : SiegeAt(b)
    \/ Advance(TheatreHorizon)

SpecTheatre == InitTheatre /\ [][NextTheatre]_vars

\* the callqueue entries of a spawn point
EntriesOf(cq, id) == {e \in cq : e.owner = id}

\* the step belongs to spawn point a: it runs or drops one of its entries,
\* changes its fields or destroys it
StepOf(a) == comp'[a] # comp[a] \/ EntriesOf(callqueue', a) # EntriesOf(callqueue, a)

\* C29: a tick, trigger, failed spawn, notification or destruction of a spawn
\* point of one base leaves the fields (combat state, tracked handles), the
\* tracked entities and the callqueue entries of every spawn point of another
\* base as they were
C29_StrongpointsIsolated ==
    [][\A a \in SpawnPoints, b \in SpawnPoints :
          (home[a] # home[b] /\ StepOf(a)) =>
             /\ comp'[b] = comp[b]
             /\ EntriesOf(callqueue', b) = EntriesOf(callqueue, b)
             /\ \A h \in TrackedGroups(comp[b]) \cup TrackedHelicopters(comp[b]) :
                   entities'[h] = entities[h]]_vars

\* C29 witness: the coordinator of base 1 was destroyed after it had triggered
\* a wave with a failed spawn, and the coordinator of base 2 has since then
\* triggered a wave of its own and still holds its periodic check.
C29_Witness ==
    /\ comp[1].life = "destroyed"
    /\ \E i \in DOMAIN trigLog : trigLog[i].sp = 1 /\ trigLog[i].failed # {}
    /\ \E i \in DOMAIN trigLog : trigLog[i].sp = 2 /\ trigLog[i].at = now
    /\ TrackedGroups(comp[2]) # {}
    /\ \E e \in callqueue : e.fn = "CheckReinforcements" /\ e.owner = 2

\* the pending elections of a spawn point
ElectionsOf(cq, id) ==
    {e \in cq : e.fn = "InitializeReinforcementCoordinator" /\ e.owner = id}

\* C30: the election of a spawn point is scheduled only by the step that
\* first finds its base resolved, a settling delay ahead; while the base is
\* unresolved nothing is scheduled or marked; once the spawn point is marked
\* initialised the mark stays and no step schedules an election again, so at
\* most one election is ever pending and it runs at most once
C30_ElectionScheduledOnce ==
    [][\A id \in SpawnPoints :
          /\ Cardinality(ElectionsOf(callqueue', id)) <= 1
          /\ (comp'[id].life = "alive" /\ comp'[id].m_nearBase = NoBase) =>
                /\ ~comp'[id].m_bCoordinatorInitialized
                /\ ElectionsOf(callqueue', id) = {}
          /\ (comp[id].life = "alive" /\ comp[id].m_nearBase = NoBase
                /\ comp'[id].m_nearBase # NoBase) =>
                ElectionsOf(callqueue', id) =
                   {[fn |-> "InitializeReinforcementCoordinator", owner |-> id,
                     due |-> now + COORDINATOR_DELAY, repeat |-> FALSE, wave |-> 0]}
          /\ ~(ElectionsOf(callqueue', id) \subseteq ElectionsOf(callqueue, id)) =>
                /\ comp[id].m_nearBase = NoBase
                /\ ~comp[id].m_bCoordinatorInitialized
                /\ comp'[id].m_bCoordinatorInitialized
          /\ (comp[id].m_bCoordinatorInitialized /\ comp'[id].life = "alive") =>
                /\ comp'[id].m_bCoordinatorInitialized
                /\ ElectionsOf(callqueue', id) \subseteq ElectionsOf(callqueue, id)
          /\ \A e \in ElectionsOf(callqueue', id) : e.due >= now']_vars

\* C30 witness: a spawn point has run its election a settling delay after it
\* resolved its base and none is pending for it, while a sibling that has not
\* resolved its base has none scheduled.
C30_Witness ==
    \E id \in SpawnPoints, other \in SpawnPoints :
        /\ comp[id].life = "alive"
        /\ comp[id].m_bCoordinatorInitialized
        /\ comp[id].ballot # {}
        /\ ElectionsOf(callqueue, id) = {}
        /\ now > COORDINATOR_DELAY
        /\ comp[other].life = "alive"
        /\ comp[other].m_nearBase = NoBase
        /\ ElectionsOf(callqueue, other) = {}

(***************************************************************************)
(* Properties of the lifecycle guard, continued                            *)
(***************************************************************************)
\* C31: for a friendly-held base off the frontline, the call of UpdateTarget
\* that first sees it so (no earlier call has, or a call has seen the
\* frontline since) starts the inactivity timer at its own time and keeps the
\* defenders; every later such call leaves the timer as it is, keeps the
\* defenders while less than 600 s have passed since the timer started and
\* gives them up once more than 600 s have passed
C31_GraceStartsAtFirstRearObservation ==
    [][\A id \in SpawnPoints :
         (comp'[id].evalAt # comp[id].evalAt /\ comp'[id].evalSaw = "rear") =>
            IF comp[id].graceSince = NoTime
            THEN /\ comp'[id].m_tInactiveSince = comp'[id].evalAt
                 /\ comp'[id].m_bIsNearTarget
            ELSE LET elapsed == comp'[id].evalAt - comp[id].graceSince
                 IN /\ comp'[id].m_tInactiveSince = comp[id].graceSince
                    /\ elapsed < INACTIVE_GRACE_PERIOD * 1000 => comp'[id].m_bIsNearTarget
                    /\ elapsed > INACTIVE_GRACE_PERIOD * 1000 => ~comp'[id].m_bIsNearTarget]_vars

\* C31 witness: the first call saw the base friendly and off the frontline
\* and started the timer, the call 599 s later kept the defenders, and the
\* call of this instant, 899 s after the first, has given them up
C31_Witness ==
    /\ ticks = 3
    /\ comp[1].evalSaw = "rear"
    /\ comp[1].evalAt = now
    /\ comp[1].graceSince = 1000
    /\ comp[1].rearSince = 1000
    /\ comp[1].m_tInactiveSince = 1000
    /\ now = 900000
    /\ ~comp[1].m_bIsNearTarget

(***************************************************************************)
(* The twin machine: two spawn points of base 1, the coordinator and a     *)
(* sibling that is none, whose UpdateTarget is called at the same instants *)
(* with the same observations while the coordinator ticks and escalates.   *)
(***************************************************************************)
\* number of calls (of UpdateTarget on both, or of CheckReinforcements) in a
\* run of the twin machine
MaxTwinSteps == 4

Sibling == 2
\* times between two calls of the twin machine, ms
TwinGaps == {1000, 300000}

InitTwins ==
    /\ now = 0
    /\ comp = [id \in SpawnPoints |->
                 IF id = 1 THEN Coordinator(1)
                 ELSE IF id = Sibling
                 THEN [Coordinator(1) EXCEPT !.m_bIsReinforcementCoordinator = FALSE]
                 ELSE NewComponent]
    /\ entities = << >>
    /\ callqueue = {}
    /\ popups = {}
    /\ patrols = <<1, Sibling>>
    /\ home = [id \in SpawnPoints |-> 1]
    /\ baseFaction \in {bf \in [Bases -> {OPFOR, BLUFOR}] :
                           \A b \in Bases \ {1} : bf[b] = OPFOR}
    /\ players = <<Player>>
    /\ trigLog = << >>
    /\ ticks = 0

\* UpdateTarget runs on the coordinator and on its sibling, d ms after the
\* last call, with the same observations
TwinUpdate(d, playerManager, collab, enemyDistances, worldOk) ==
    /\ ticks < MaxTwinSteps
    /\ LET t  == now + d
           f1 == UpdateTarget(Frame(1), 1, home[1], TRUE, baseFaction, playerManager,
                              players, collab, enemyDistances, worldOk, t)
           f2 == UpdateTarget([f1 EXCEPT !.c = comp[Sibling]], Sibling, home[Sibling],
                              TRUE, baseFaction, playerManager, players, collab,
                              enemyDistances, worldOk, t)
       IN /\ comp' = [comp EXCEPT ![1] = [f1.c EXCEPT !.evalAt = t],
                                  ![Sibling] = [f2.c EXCEPT !.evalAt = t]]
          /\ entities' = f2.ents
          /\ callqueue' = f2.cq
          /\ trigLog' = f2.log
    /\ now' = now + d
    /\ ticks' = ticks + 1
    /\ UNCHANGED <<popups, patrols, home, baseFaction, players>>

\* CheckReinforcements runs on both: the sibling returns at its first guard
TwinTick(d, combatActive, spawns) ==
    /\ ticks < MaxTwinSteps
    /\ \A e \in callqueue : e.due > now + d
    /\ LET t  == now + d
           f1 == CheckReinforcements(Frame(1), 1, combatActive, TRUE, t, spawns)
           f2 == CheckReinforcements([f1 EXCEPT !.c = comp[Sibling]], Sibling,
                                     combatActive, TRUE, t, spawns)
       IN /\ comp' = [comp EXCEPT ![1] = f1.c, ![Sibling] = f2.c]
          /\ entities' = f2.ents
          /\ callqueue' = f2.cq
          /\ trigLog' = f2.log
    /\ now' = now + d
    /\ ticks' = ticks + 1
    /\ UNCHANGED <<popups, patrols, home, baseFaction, players>>

NextTwins ==
    \/ \E d \in TwinGaps, collab \in CollaboratorCases, enemyDistances \in EnemyDistances,
          worldOk \in BOOLEAN :
          TwinUpdate(d, TRUE, collab, enemyDistances, worldOk)
    \/ \E d \in TwinGaps : TwinUpdate(d, FALSE, AllPresent, {}, TRUE)
    \/ \E d \in TwinGaps, combatActive \in BOOLEAN, spawns \in SpawnFailures :
          TwinTick(d, combatActive, spawns)
    \/ \E faction \in {OPFOR, BLUFOR} : BaseChangesHands(home[1], faction)
    \/ \E e \in callqueue : DoSendReinforcementAlert(e, TRUE)

SpecTwins == InitTwins /\ [][NextTwins]_vars

\* the escalation state of a component
CombatState(c) ==
    <<c.m_tCombatStartTime, c.m_bReinforcementActive, c.m_iReinforcementWave,
      c.m_tLastReinforcementTime, c.m_aReinforcementGroups, c.m_aReinforcementHelicopters>>

\* C32: the coordinator and a sibling that is none, given the same ownership
\* and frontline observations at the same instants, reach the same decision
\* and the same inactivity timer after every call of UpdateTarget, whatever
\* the escalation state of the coordinator is; and a call of UpdateTarget
\* leaves the escalation state of the component as it was
C32_GuardNotGatedByCoordinator ==
    [][/\ comp'[1].m_bIsNearTarget = comp'[Sibling].m_bIsNearTarget
       /\ comp'[1].m_tInactiveSince = comp'[Sibling].m_tInactiveSince
       /\ \A id \in SpawnPoints :
             comp'[id].evalAt # comp[id].evalAt =>
                CombatState(comp'[id]) = CombatState(comp[id])]_vars

\* C32 witness: the coordinator has triggered a wave and is engaged, its
\* sibling is idle, and the call of UpdateTarget of this instant has given up
\* the defenders of both after the grace period.
C32_Witness ==
    /\ comp[1].m_bIsReinforcementCoordinator
    /\ ~comp[Sibling].m_bIsReinforcementCoordinator
    /\ comp[1].m_bReinforcementActive
    /\ comp[1].m_iReinforcementWave >= 1
    /\ ~comp[Sibling].m_bReinforcementActive
    /\ comp[1].evalAt = now
    /\ comp[Sibling].evalAt = now
    /\ ~comp[1].m_bIsNearTarget
    /\ ~comp[Sibling].m_bIsNearTarget

(***************************************************************************)
(* The defender component of Modded_DefenderSpawnPointComponent.c: an      *)
(* elected coordinator with two waves that does not spawn by itself.  A    *)
(* trigger overwrites the spawn parameters of the base class, expires its  *)
(* respawn timer and leaves the spawning to the base class's own cycle;    *)
(* CheckAndResetReinforcementParams restores the parameters afterwards.    *)
(***************************************************************************)
\* REINFORCEMENT_GROUP_COUNT of this component
RIDE_REINFORCEMENT_GROUP_COUNT == 2
\* REINFORCEMENT_SPAWN_RADIUS, in units
REINFORCEMENT_SPAWN_RADIUS == 200
\* "m_fSpawnDisperson = 50.0; // Reset to normal"
NORMAL_SPAWN_DISPERSION == 50
\* "CallLater(CheckAndResetReinforcementParams, 15000, false)"
PARAM_RESET_DELAY == 15000
\* "CallLater(CheckAndResetReinforcementParams, 5000, false)"
PARAM_RETRY_DELAY == 5000

\* m_Group of a spawn point without a standing group
NoGroup == 0

\* the fields of the base class the component reads and writes, and its own
\* pending flag
\* attempted, attemptAt (history): the wave and the time of the last call of
\* TriggerReinforcements
RideComponent ==
    [f \in DOMAIN NewComponent \cup
           {"m_bSpawned", "m_Group", "m_bReinforcementSpawnPending", "m_fSpawnDisperson",
            "m_eGroupType", "m_fRespawnTimestamp", "attempted", "attemptAt"} |->
        CASE f \in DOMAIN NewComponent -> NewComponent[f]
          [] f = "m_bSpawned" -> FALSE
          [] f = "m_Group" -> NoGroup
          [] f = "m_bReinforcementSpawnPending" -> FALSE
          [] f = "m_fSpawnDisperson" -> NORMAL_SPAWN_DISPERSION
          [] f = "m_eGroupType" -> "FIRETEAM"
          [] f = "m_fRespawnTimestamp" -> NoTime
          [] f = "attempted" -> 0
          [] f = "attemptAt" -> NoTime]

\* ResetToNormalSpawn of this component
RideResetToNormalSpawn(f) ==
    [f EXCEPT !.c.m_iNum = NORMAL_GROUP_COUNT,
              !.c.m_fSpawnDisperson = NORMAL_SPAWN_DISPERSION]

RideResetReinforcementState(f) ==
    RideResetToNormalSpawn([f EXCEPT !.c.m_bReinforcementActive = FALSE,
                                     !.c.m_iReinforcementWave = 0])

\* DespawnPatrol of the base class: the standing group is deleted
DespawnPatrol(f) ==
    [f EXCEPT !.ents[f.c.m_Group].status = "deleted", !.c.m_Group = NoGroup]

\* a trigger that consumes the wave also when it is blocked
RideTriggerReinforcements_Consume(f, id, wave, worldOk, t) ==
    IF ~worldOk
    THEN f
    ELSE [f EXCEPT !.c.m_tLastReinforcementTime = t, !.c.m_iReinforcementWave = wave]

\* TriggerReinforcements: nothing happens without a world or while the base
\* class has its group spawned; otherwise the wave is recorded, the
\* parameters are overwritten, the alert is scheduled, a standing group is
\* despawned, the respawn timer is expired and the reset check is scheduled
RideTriggerReinforcements(f, id, wave, worldOk, t) ==
    IF ~worldOk
    THEN f
    ELSE IF f.c.m_bSpawned
    THEN f
    ELSE
      LET f1 == [f EXCEPT
                   !.c.m_tLastReinforcementTime = t,
                   !.c.m_iReinforcementWave = wave,
                   !.c.m_bReinforcementSpawnPending = TRUE,
                   !.c.m_iNum = RIDE_REINFORCEMENT_GROUP_COUNT,
                   !.c.m_fSpawnDisperson = REINFORCEMENT_SPAWN_RADIUS,
                   !.c.m_eGroupType = IF wave = 1 THEN "FIRETEAM" ELSE "SQUAD_RIFLE",
                   !.log = Append(@, [sp |-> id, base |-> f.c.m_nearBase, wave |-> wave,
                                      at |-> t, start |-> f.c.m_tCombatStartTime])]
          f2 == BroadcastReinforcementAlert(f1, id, wave, t)
          f3 == IF f2.c.m_Group # NoGroup THEN DespawnPatrol(f2) ELSE f2
      IN [f3 EXCEPT !.c.m_fRespawnTimestamp = t,
                    !.cq = @ \cup {[fn |-> "CheckAndResetReinforcementParams", owner |-> id,
                                    due |-> t + PARAM_RESET_DELAY, repeat |-> FALSE,
                                    wave |-> 0]}]

RideUpdateReinforcementState(f, id, combatActive, worldOk, currentTime) ==
    IF ~worldOk
    THEN f
    ELSE
      LET f1 == StartTracking(f, combatActive, currentTime)
          combatDurationMs == DiffMilliseconds(currentTime, f1.c.m_tCombatStartTime)
          wave == LegacyWaveToTrigger(f1.c, combatDurationMs)
      IN IF ~combatActive /\ f1.c.m_bReinforcementActive
         THEN RideResetReinforcementState(f1)
         ELSE IF ~f1.c.m_bReinforcementActive
         THEN f1
         ELSE IF InCooldown(f1.c, currentTime)
         THEN f1
         ELSE IF wave # 0
         THEN RideTriggerReinforcements(
                  [f1 EXCEPT !.c.attempted = wave, !.c.attemptAt = currentTime],
                  id, wave, worldOk, currentTime)
         ELSE f1

RideCheckReinforcements(f, id, combatActive, worldOk, t) ==
    IF ~f.c.m_bIsReinforcementCoordinator
    THEN f
    ELSE IF f.c.m_nearBase = NoBase
    THEN f
    ELSE RideUpdateReinforcementState(f, id, combatActive, worldOk, t)

\* a reset check that never finds the group and goes on retrying
CheckAndResetReinforcementParams_NeverSees(f, id, t) ==
    IF ~f.c.m_bReinforcementSpawnPending
    THEN f
    ELSE IF f.c.m_nearBase = NoBase
    THEN f
    ELSE [f EXCEPT !.cq = @ \cup {[fn |-> "CheckAndResetReinforcementParams", owner |-> id,
                                   due |-> t + PARAM_RETRY_DELAY, repeat |-> FALSE,
                                   wave |-> 0]}]

\* CheckAndResetReinforcementParams: without a pending spawn nothing; with the
\* group spawned the parameters are restored; otherwise the check is
\* scheduled again.  Both branches read the name of the base first: without a
\* base the call ends there with a script error.
CheckAndResetReinforcementParams(f, id, t) ==
    IF ~f.c.m_bReinforcementSpawnPending
    THEN f
    ELSE IF f.c.m_nearBase = NoBase
    THEN f
    ELSE IF f.c.m_bSpawned /\ f.c.m_Group # NoGroup
    THEN RideResetToNormalSpawn([f EXCEPT !.c.m_bReinforcementSpawnPending = FALSE])
    ELSE [f EXCEPT !.cq = @ \cup {[fn |-> "CheckAndResetReinforcementParams", owner |-> id,
                                   due |-> t + PARAM_RETRY_DELAY, repeat |-> FALSE,
                                   wave |-> 0]}]

\* length of a run of this component, in check intervals
MaxRideIntervals == 21
RideHorizon == MaxRideIntervals * CHECK_INTERVAL
\* number of groups the spawn cycle of the base class spawns in a run, after
\* the standing group it starts with
MaxRideSpawns == 1

\* a living player character of the other side who stands at base 1
RideBesieger == [Player EXCEPT !.dist[1] = Nearby]

\* the instant the election has made spawn point 1 the coordinator of base 1
\* and scheduled its periodic check; its standing group is out and the base
\* is under attack
InitRide ==
    /\ now = 0
    /\ comp = [id \in SpawnPoints |->
                 IF id = 1
                 THEN [RideComponent EXCEPT !.m_nearBase = 1,
                                            !.m_bCoordinatorInitialized = TRUE,
                                            !.m_bIsReinforcementCoordinator = TRUE,
                                            !.m_bSpawned = TRUE,
                                            !.m_Group = 1]
                 ELSE RideComponent]
    \* the standing group of spawn point 1
    /\ entities = <<[kind |-> "FIRETEAM", status |-> "live", owner |-> 1, wave |-> 0,
                     at |-> 0, perception |-> SOLO_PERCEPTION,
                     skill |-> "EXPERT", skipped |-> FALSE]>>
    /\ callqueue = {[fn |-> "CheckReinforcements", owner |-> 1, due |-> CHECK_INTERVAL,
                     repeat |-> TRUE, wave |-> 0]}
    /\ popups = {}
    /\ patrols = <<1>>
    /\ home = [id \in SpawnPoints |-> 1]
    /\ baseFaction = [b \in Bases |-> OPFOR]
    /\ players = <<RideBesieger>>
    /\ trigLog = << >>
    /\ ticks = 0

RideCheckCall(e) ==
    /\ Due(e, "CheckReinforcements")
    /\ LET c == comp[e.owner]
           f == [Frame(e.owner) EXCEPT
                   !.cq = (@ \ {e}) \cup {[e EXCEPT !.due = e.due + CHECK_INTERVAL]}]
       IN Commit(e.owner,
                 RideCheckReinforcements(f, e.owner,
                                         DetectCombatAtBase(c, baseFaction, TRUE, players),
                                         TRUE, now))
    /\ ticks' = ticks + 1
    /\ UNCHANGED <<now, popups, patrols, home, baseFaction, players>>

ParamResetCall(e) ==
    /\ Due(e, "CheckAndResetReinforcementParams")
    /\ Commit(e.owner,
              CheckAndResetReinforcementParams([Frame(e.owner) EXCEPT !.cq = @ \ {e}],
                                               e.owner, now))
    /\ UNCHANGED <<now, popups, patrols, home, baseFaction, players, ticks>>

\* the instants of the periodic check, before or after the calls due then
AtCheckInstant == now % CHECK_INTERVAL = 0

\* the spawn cycle of the base class calls SpawnPatrol with the parameters
\* it finds; when the parent has spawned the group the cycle is complete
FrameworkSpawns(id, result, playerManager) ==
    /\ playerManager \/ players = << >>
    /\ comp[id].life = "alive"
    /\ comp[id].m_nearBase # NoBase
    /\ ~comp[id].m_bSpawned
    /\ Len(entities) <= MaxRideSpawns
    /\ LET f == SpawnPatrol(Frame(id), id, comp[id].m_eGroupType,
                            comp[id].m_iReinforcementWave, now, result, playerManager)
       IN IF result = "null"
          THEN Commit(id, f)
          ELSE Commit(id, [f EXCEPT !.c.m_bSpawned = TRUE, !.c.m_Group = Len(f.ents)])
    /\ UNCHANGED <<now, popups, patrols, home, baseFaction, players, ticks>>

\* the standing group is lost and the base class waits for its next cycle
FrameworkGroupLost(id) ==
    /\ comp[id].m_bSpawned
    /\ comp[id].m_Group # NoGroup
    /\ comp' = [comp EXCEPT ![id].m_bSpawned = FALSE, ![id].m_Group = NoGroup]
    /\ entities' = [entities EXCEPT ![comp[id].m_Group].status = "empty"]
    /\ UNCHANGED <<now, callqueue, popups, patrols, home, baseFaction, players,
                   trigLog, ticks>>

\* the player leaves the range of base 1 for good
SiegeLifted ==
    /\ players[1].dist[1] = Nearby
    /\ players' = [players EXCEPT ![1].dist[1] = FarAway]
    /\ UNCHANGED <<now, comp, entities, callqueue, popups, patrols, home, baseFaction,
                   trigLog, ticks>>

\* the standing group of the cycle is spawned whole or not at all
RideSpawnResults == {"null", "tuned"}

NextRide ==
    \/ \E e \in callqueue : RideCheckCall(e)
    \/ \E e \in callqueue, autonomousCaptureSystem \in BOOLEAN, playerManager \in BOOLEAN :
          LegacyAlertCall(e, autonomousCaptureSystem, playerManager)
    \/ \E e \in callqueue : ParamResetCall(e)
    \/ \E result \in RideSpawnResults, playerManager \in BOOLEAN :
          AtCheckInstant /\ FrameworkSpawns(1, result, playerManager)
    \/ AtCheckInstant /\ FrameworkGroupLost(1)
    \/ AtCheckInstant /\ SiegeLifted
    \/ Advance(RideHorizon)

SpecRide == InitRide /\ [][NextRide]_vars

\* what a tick leaves alone when its trigger is blocked
RideFrame(c) ==
    <<c.m_iReinforcementWave, c.m_tLastReinforcementTime, c.m_bReinforcementSpawnPending,
      c.m_iNum, c.m_fSpawnDisperson, c.m_eGroupType, c.m_fRespawnTimestamp, c.m_Group,
      c.m_bSpawned>>

\* the delayed calls (everything but the periodic check) in a callqueue
Delayed(cq) == {e \in cq : e.fn # "CheckReinforcements"}

\* the tick of this step calls TriggerReinforcements while the group of the
\* base class is spawned
BlockedTrigger == ticks' = ticks + 1 /\ comp'[1].attemptAt = now /\ comp[1].m_bSpawned

\* the tick of this step follows a tick whose trigger was blocked, is still
\* blocked and finds the combat going on
StillBlocked ==
    /\ ticks' = ticks + 1
    /\ comp[1].attemptAt = now - CHECK_INTERVAL
    /\ comp[1].m_iReinforcementWave < comp[1].attempted
    /\ comp[1].m_bSpawned
    /\ comp'[1].m_bReinforcementActive
    /\ comp'[1].m_tCombatStartTime = comp[1].m_tCombatStartTime

\* a blocked trigger changes nothing and sends nothing
BlockedTriggerIsNoOp ==
    BlockedTrigger =>
       /\ RideFrame(comp'[1]) = RideFrame(comp[1])
       /\ Delayed(callqueue') = Delayed(callqueue)
       /\ popups' = popups
       /\ trigLog' = trigLog
       /\ entities' = entities

\* C33 as claimed: a blocked trigger changes nothing and sends nothing, and
\* while the trigger stays blocked every later tick attempts the same wave
C33_BlockedTriggerRetriesSameWave ==
    [][/\ BlockedTriggerIsNoOp
       /\ StillBlocked =>
             /\ comp'[1].attemptAt = now
             /\ comp'[1].attempted = comp[1].attempted]_vars

\* C33 with the wave the code retries: a blocked trigger changes nothing and
\* sends nothing, and while the trigger stays blocked and the combat goes on
\* every later tick attempts a trigger again, of the highest wave whose
\* threshold has been reached: wave 1 up to 600 s of combat and wave 2 from
\* then on, so a wave 1 that was blocked until then is never triggered
C33_BlockedTriggerRetriesDueWave ==
    [][/\ BlockedTriggerIsNoOp
       /\ StillBlocked =>
             /\ comp'[1].attemptAt = now
             /\ comp'[1].attempted >= comp[1].attempted
             /\ comp'[1].attempted =
                   IF now - comp[1].m_tCombatStartTime >= REINFORCEMENT_WAVE2_THRESHOLD * 1000
                   THEN 2 ELSE 1]_vars

\* C33 witness: the trigger of wave 1 was blocked at every tick since its
\* threshold; the tick of this instant has attempted wave 2, blocked again,
\* with no wave recorded, no parameter changed and no notification
C33_Witness ==
    /\ comp[1].m_bReinforcementActive
    /\ comp[1].m_bSpawned
    /\ comp[1].attempted = 2
    /\ comp[1].attemptAt = now
    /\ comp[1].m_iReinforcementWave = 0
    /\ comp[1].m_tLastReinforcementTime = NoTime
    /\ ~comp[1].m_bReinforcementSpawnPending
    /\ comp[1].m_fSpawnDisperson = NORMAL_SPAWN_DISPERSION
    /\ trigLog = << >>
    /\ popups = {}

\* length of the window in which the siege is followed, in check intervals
MaxRideLiveIntervals == 12
RideLiveHorizon == MaxRideLiveIntervals * CHECK_INTERVAL

\* beyond the window: once the attackers have left for good no call reads a
\* timestamp any more (the detector answers false, the periodic check at most
\* resets, the reset check schedules itself relative to the clock), so what
\* follows one check interval later is what follows now with the clock, the
\* due times and the count of periodic checks one interval on: the window
\* moves with the clock and the run goes on for ever
WindowMoves ==
    /\ players[1].dist[1] = FarAway
    /\ \A e \in callqueue : e.due > now
    /\ Min({now + CHECK_INTERVAL} \cup {e.due : e \in callqueue}) > RideLiveHorizon
    /\ now' = now - CHECK_INTERVAL
    /\ callqueue' = {[e EXCEPT !.due = @ - CHECK_INTERVAL] : e \in callqueue}
    /\ ticks' = ticks - 1
    /\ UNCHANGED <<comp, entities, popups, patrols, home, baseFaction, players, trigLog>>

NextRideLive ==
    \/ \E e \in callqueue : RideCheckCall(e)
    \/ \E e \in callqueue, autonomousCaptureSystem \in BOOLEAN, playerManager \in BOOLEAN :
          LegacyAlertCall(e, autonomousCaptureSystem, playerManager)
    \/ \E e \in callqueue : ParamResetCall(e)
    \/ \E result \in {"null", "agentless", "tuned"}, playerManager \in BOOLEAN :
          FrameworkSpawns(1, result, playerManager)
    \/ FrameworkGroupLost(1)
    \/ SiegeLifted
    \/ Advance(RideLiveHorizon)
    \/ WindowMoves

\* the callqueue runs its due calls and time goes on; every siege ends, at
\* the end of the window at the latest
SpecRideLive ==
    /\ InitRide
    /\ [][NextRideLive]_vars
    /\ WF_vars(\E e \in callqueue : RideCheckCall(e))
    /\ WF_vars(\E e \in callqueue, autonomousCaptureSystem \in BOOLEAN,
                   playerManager \in BOOLEAN :
                   LegacyAlertCall(e, autonomousCaptureSystem, playerManager))
    /\ WF_vars(\E e \in callqueue : ParamResetCall(e))
    /\ WF_vars(Advance(RideLiveHorizon))
    /\ WF_vars(SiegeLifted)
    /\ WF_vars(WindowMoves)

\* the pending reset checks of spawn point 1
ResetChecks == {e \in callqueue : e.fn = "CheckAndResetReinforcementParams" /\ e.owner = 1}

\* the spawn parameters of the base class have their normal values
NormalParams(c) ==
    c.m_iNum = NORMAL_GROUP_COUNT /\ c.m_fSpawnDisperson = NORMAL_SPAWN_DISPERSION

\* the parameters are back to normal and no reset check is left
Settled ==
    /\ ~comp[1].m_bReinforcementSpawnPending
    /\ NormalParams(comp[1])
    /\ ResetChecks = {}

\* the base class has its group out
GroupThere == comp[1].m_bSpawned /\ comp[1].m_Group # NoGroup

\* the base class has completed a spawn since the last trigger
SpawnCompleted ==
    /\ trigLog # << >>
    /\ \E h \in DOMAIN entities :
          /\ entities[h].at >= trigLog[Len(trigLog)].at
          /\ entities[h].wave = trigLog[Len(trigLog)].wave

NothingSpawned(e) == e.failed = 1 .. e.requested

\* C35: in the direct-spawn orchestrator a trigger sets the wave number and
\* the time of the last wave whether or not a group is spawned; a wave is
\* triggered at most once in an engagement, and no wave is triggered less
\* than 10 s after a trigger, a trigger that spawned nothing included
C35_FailedWaveIsConsumed ==
    [][/\ Len(trigLog') = Len(trigLog) + 1 =>
             LET e == trigLog'[Len(trigLog')]
             IN /\ comp'[e.sp].m_iReinforcementWave = e.wave
                /\ comp'[e.sp].m_tLastReinforcementTime = now'
                /\ e.at = now'
                /\ \A i \in DOMAIN trigLog :
                      trigLog[i].start = e.start => trigLog[i].wave # e.wave
       /\ (/\ trigLog # << >>
           /\ NothingSpawned(trigLog[Len(trigLog)])
           /\ now' - trigLog[Len(trigLog)].at < COOLDOWN_SECONDS * 1000)
             => trigLog' = trigLog]_vars

\* C35 witness: wave 1 was triggered and none of its groups was spawned; the
\* cooldown is over, the same engagement goes on with wave 1 still the
\* highest wave reached, and the last tick did not trigger it again
C35_Witness ==
    /\ Len(trigLog) = 1
    /\ trigLog[1].wave = 1
    /\ NothingSpawned(trigLog[1])
    /\ entities = << >>
    /\ comp[1].m_bReinforcementActive
    /\ comp[1].m_tCombatStartTime = trigLog[1].start
    /\ comp[1].m_iReinforcementWave = 1
    /\ comp[1].m_tLastReinforcementTime = trigLog[1].at
    /\ now >= trigLog[1].at + COOLDOWN_SECONDS * 1000
    /\ HighestReached(now - comp[1].m_tCombatStartTime) = 1
    /\ ticks = 4

(***************************************************************************)
(* The election flags over the life of a spawn point                       *)
(***************************************************************************)
\* the election of the spawn point ran and returned before its loop
ElectionAborted(cs, cq, id) ==
    /\ cs[id].life = "alive"
    /\ cs[id].m_bCoordinatorInitialized
    /\ ElectionsOf(cq, id) = {}
    /\ cs[id].ballot = {}

\* C36: while a spawn point lives, m_bCoordinatorInitialized and
\* m_bIsReinforcementCoordinator never go from true to false; an election
\* that returns early (strongpoint reference gone, no capture system, empty
\* patrol list) changes nothing and schedules nothing, and from then on the
\* spawn point is a non-coordinator without a periodic check and without a
\* pending election
C36_ElectionFlagsMonotone ==
    [][\A id \in SpawnPoints :
          /\ (comp[id].life = "alive" /\ comp'[id].life = "alive") =>
                /\ comp[id].m_bCoordinatorInitialized => comp'[id].m_bCoordinatorInitialized
                /\ comp[id].m_bIsReinforcementCoordinator
                      => comp'[id].m_bIsReinforcementCoordinator
          /\ comp[id].life = "alive" =>
                \A autonomousSystem \in BOOLEAN :
                    LET f == [Frame(id) EXCEPT !.c.m_nearBase = NoBase]
                    IN InitializeReinforcementCoordinator(f, id, autonomousSystem,
                                                          patrols, comp, now) = f
          /\ (\E e \in ElectionsOf(callqueue, id) : e \notin callqueue')
                /\ comp'[id].life = "alive" /\ comp'[id].ballot = {} =>
                /\ ElectionAborted(comp', callqueue', id)
                /\ comp'[id] = comp[id]
                /\ callqueue' = callqueue \ ElectionsOf(callqueue, id)
          /\ ElectionAborted(comp, callqueue, id) =>
                /\ ~comp[id].m_bIsReinforcementCoordinator
                /\ ~\E e \in callqueue : e.fn = "CheckReinforcements" /\ e.owner = id
                /\ comp'[id].life = "alive" => ElectionAborted(comp', callqueue', id)]_vars

\* C36 witness: the election of spawn point 1 returned early when no spawn
\* point was registered; the spawn point was registered later, a check
\* interval has passed, and it is the only spawn point of its base, neither
\* coordinator nor scheduled for anything
C36_Witness ==
    /\ ElectionAborted(comp, callqueue, 1)
    /\ 1 \in Range(patrols)
    /\ ~comp[1].m_bIsReinforcementCoordinator
    /\ BoundTo(comp[1].m_nearBase) = {1}
    /\ \A e \in callqueue : e.owner # 1
    /\ now >= COORDINATOR_DELAY + CHECK_INTERVAL

(***************************************************************************)
(* The ticks that change the escalation state                              *)
(***************************************************************************)
\* C37: the tick that takes the coordinator from Idle to Engaged sets the
\* combat start time to the time of the tick (elapsed 0) and fires no wave,
\* and the tick that takes it from Engaged to Idle fires no wave either,
\* whatever time has elapsed since the start of the engagement: no trigger
\* is logged, no entity is created and no notification is scheduled
C37_NoWaveOnTransitionTicks ==
    [][\A id \in SpawnPoints :
          /\ (~comp[id].m_bReinforcementActive /\ comp'[id].m_bReinforcementActive) =>
                /\ comp'[id].m_tCombatStartTime = now'
                /\ comp'[id].m_iReinforcementWave = 0
                /\ trigLog' = trigLog
                /\ entities' = entities
                /\ callqueue' = callqueue
          /\ (comp[id].m_bReinforcementActive /\ ~comp'[id].m_bReinforcementActive) =>
                /\ trigLog' = trigLog
                /\ Len(entities') = Len(entities)
                /\ callqueue' = callqueue
                /\ comp'[id].m_tLastReinforcementTime = comp[id].m_tLastReinforcementTime]_vars

\* C37 witness: the first tick engaged the coordinator and the second, more
\* than the threshold of wave 1 later, found combat over and reset it: no
\* wave was ever triggered although wave 1 was due and no cooldown ran
C37_Witness ==
    /\ ticks = 2
    /\ ~comp[1].m_bReinforcementActive
    /\ comp[1].m_tCombatStartTime # NoTime
    /\ comp[1].m_tCombatStartTime < now
    /\ HighestReached(now - comp[1].m_tCombatStartTime) >= 1
    /\ comp[1].m_tLastReinforcementTime = NoTime
    /\ trigLog = << >>
    /\ entities = << >>

(***************************************************************************)
(* The skill machine: players connect and disconnect while the coordinator *)
(* of base 1 ticks every 300 s and spawns its waves.                        *)
(***************************************************************************)
\* number of players that can be connected
MaxRoster == 11
\* time between two ticks, ms
SkillGap == REINFORCEMENT_WAVE1_THRESHOLD * 1000

\* GetPlayerManager().GetPlayerCount() goes up by one
PlayerConnects ==
    /\ Len(players) < MaxRoster
    /\ players' = Append(players, Player)
    /\ UNCHANGED <<now, comp, entities, callqueue, popups, patrols, home, baseFaction,
                   trigLog, ticks>>

\* GetPlayerManager().GetPlayerCount() goes down by one
PlayerDisconnects ==
    /\ players # << >>
    /\ players' = SubSeq(players, 1, Len(players) - 1)
    /\ UNCHANGED <<now, comp, entities, callqueue, popups, patrols, home, baseFaction,
                   trigLog, ticks>>

NextSkill ==
    \/ \E combatActive \in BOOLEAN, spawns \in SpawnOutcomes :
          TickCall(SkillGap, combatActive, TRUE, spawns)
    \/ \E e \in callqueue : DoSendReinforcementAlert(e, TRUE)
    \/ PlayerConnects
    \/ PlayerDisconnects

SpecSkill == InitTicks /\ [][NextSkill]_vars

\* C38 as claimed: every member of a reinforcement group a step spawns has
\* its skill and its perception factor from the number of connected players
\* alone: EXPERT and 1.5 with fewer than 5 players, the same with 5 to 9
\* players, CYLON and 2.0 with 10 players or more
C38_SkillByPlayerCountTiers ==
    [][\A h \in DOMAIN entities' \ DOMAIN entities :
          (entities'[h].kind # "HELICOPTER" /\ entities'[h].status = "live") =>
             LET n == Len(players)
                 e == entities'[h]
             IN /\ ~e.skipped
                /\ n < 5 => e.skill = "EXPERT" /\ e.perception = 15
                /\ (5 <= n /\ n <= 9) => e.skill = "EXPERT" /\ e.perception = 15
                /\ n >= 10 => e.skill = "CYLON" /\ e.perception = 20]_vars

\* C38 amended: the members the loop configures (those with a controlled
\* entity, an info component and a combat component) have their skill and
\* factor from the number of connected players alone, in the three tiers,
\* the same for all groups of a wave; a group has unconfigured members only
\* when the loop skipped some, and a group without agents has none
C38_ConfiguredSkillByPlayerCountTiers ==
    [][\A h \in DOMAIN entities' \ DOMAIN entities :
          entities'[h].kind # "HELICOPTER" =>
             LET n == Len(players)
                 e == entities'[h]
                 configured == e.perception # NoPerception
             IN /\ configured <=> e.skill # NoSkill
                /\ configured => e.status = "live"
                /\ (configured /\ n < 5) => e.skill = "EXPERT" /\ e.perception = 15
                /\ (configured /\ 5 <= n /\ n <= 9) =>
                      e.skill = "EXPERT" /\ e.perception = 15
                /\ (configured /\ n >= 10) => e.skill = "CYLON" /\ e.perception = 20
                /\ (e.status = "live" /\ ~e.skipped) => configured
                /\ e.skipped => e.status = "live"
                /\ \A g \in DOMAIN entities' \ DOMAIN entities :
                      (entities'[g].perception # NoPerception /\ configured) =>
                         /\ entities'[g].skill = e.skill
                         /\ entities'[g].perception = e.perception]_vars

\* C38 witness: a wave was spawned with ten players or more connected and
\* has the elevated setting; players have left since, and the wave spawned at
\* this instant with 5 to 9 players connected has one group with the baseline
\* on the members that were configured, some being skipped, and one group
\* none of whose members was configured
C38_Witness ==
    /\ Len(players) >= 5
    /\ Len(players) <= 9
    /\ \E h1, h2, h3 \in DOMAIN entities :
          /\ entities[h1].at < now
          /\ entities[h1].skill = "CYLON"
          /\ entities[h1].perception = CYLON_PERCEPTION
          /\ ~entities[h1].skipped
          /\ entities[h2].at = now
          /\ entities[h2].skill = "EXPERT"
          /\ entities[h2].perception = EXPERT_PERCEPTION
          /\ entities[h2].skipped
          /\ entities[h3].at = now
          /\ entities[h3].status = "live"
          /\ entities[h3].perception = NoPerception
          /\ entities[h3].skipped

(***************************************************************************)
(* The attacker spawn points (IPC_AutonomousCaptureSpawnPointComponent):    *)
(* two script files override EOnInit of the class, and each override sets  *)
(* the respawn period and the group count under a header comment that      *)
(* states them.  Both overrides assign both fields, so when both are        *)
(* compiled the fields end with the values of the override that runs last. *)
(***************************************************************************)
AttackerScripts ==
    {"Modded_AutonomousCaptureSpawnPointComponent.c", "Modded_IPC_SpawnPointBaseClass.c"}

\* what the world editor may have put in the two attributes of a placed
\* spawn point, the former values "was 120s" and "was 2" among them
PlacedRespawnPeriods == {90, 100, 120}
PlacedGroupCounts == {1, 2, 3}

\* a placed attacker spawn point before its EOnInit
PlacedAttacker(period, num) ==
    [life |-> "unborn", m_iRespawnPeriod |-> period, m_iNum |-> num, script |-> "none"]

\* "Requirements: 100s respawn time, N groups per spawn point" of the header
\* comment of each file
DocumentedRespawnPeriod(script) == 100
DocumentedGroupCount(script) ==
    IF script = "Modded_AutonomousCaptureSpawnPointComponent.c" THEN 3 ELSE 1

\* EOnInit of the class in each file, after super.EOnInit(owner)
AttackerEOnInit(c, script) ==
    IF script = "Modded_AutonomousCaptureSpawnPointComponent.c"
    THEN [c EXCEPT !.life = "alive", !.script = script,
                   !.m_iRespawnPeriod = 100, !.m_iNum = 3]
    ELSE [c EXCEPT !.life = "alive", !.script = script,
                   !.m_iRespawnPeriod = 90, !.m_iNum = 1]

InitAttackers ==
    /\ now = 0
    /\ comp \in [SpawnPoints -> {PlacedAttacker(period, num) :
                                    period \in PlacedRespawnPeriods,
                                    num \in PlacedGroupCounts}]
    /\ entities = << >>
    /\ callqueue = {}
    /\ popups = {}
    /\ patrols = << >>
    /\ home = [id \in SpawnPoints |-> 1]
    /\ baseFaction = [b \in Bases |-> OPFOR]
    /\ players = << >>
    /\ trigLog = << >>
    /\ ticks = 0

\* the entity of an attacker spawn point is initialised
AttackerInitialised(id, script) ==
    /\ comp[id].life = "unborn"
    /\ comp' = [comp EXCEPT ![id] = AttackerEOnInit(comp[id], script)]
    /\ UNCHANGED <<now, entities, callqueue, popups, patrols, home, baseFaction,
                   players, trigLog, ticks>>

NextAttackers ==
    \/ \E id \in SpawnPoints :
          AttackerInitialised(id, "Modded_AutonomousCaptureSpawnPointComponent.c")
    \/ \E id \in SpawnPoints :
          AttackerInitialised(id, "Modded_IPC_SpawnPointBaseClass.c")

SpecAttackers == InitAttackers /\ [][NextAttackers]_vars

\* C39: an initialised attacker spawn point has the respawn period (100 s)
\* and the group count that the header comment of the file of its EOnInit
\* states
C39_AttackerParametersAsDocumented ==
    \A id \in SpawnPoints :
        comp[id].life = "alive" =>
           /\ comp[id].m_iRespawnPeriod = DocumentedRespawnPeriod(comp[id].script)
           /\ comp[id].m_iNum = DocumentedGroupCount(comp[id].script)
====
